---- MODULE Spec2Model ----
(***************************************************************************)
(* Model of the sherpa command guard (packages/sherpa): the PreToolUse     *)
(* check checkBashCommand with its fast path, the bash-parser tree it      *)
(* walks, parseCommand / extractCommands / normalizePath, and the rule     *)
(* matcher of rules.ts (matchesBlockRule, matchesAllowRule, checkPipeline, *)
(* checkCommand) with the two module-level regex caches.                   *)
(*                                                                         *)
(* JavaScript strings are TLA+ strings; arrays are sequences; a value of   *)
(* type string | string[] is a record with the field str or the field arr; *)
(* an optional field is a field the record may lack.  A call that can      *)
(* throw yields a completion: Normal(v) or Throw(e).  Where the source     *)
(* binds a local and then branches on it, the branches are an operator     *)
(* that takes the local as a parameter.                                    *)
(***************************************************************************)
EXTENDS Integers, Sequences, FiniteSets, TLC

(***************************************************************************)
(* String and array primitives (the methods of String.prototype and        *)
(* Array.prototype the source uses)                                        *)
(***************************************************************************)
CharAt(s, i) == SubSeq(s, i, i)

Slice(s, n) == SubSeq(s, n + 1, Len(s))

StartsWith(s, p) == Len(p) <= Len(s) /\ SubSeq(s, 1, Len(p)) = p

Includes(s, p) ==
    \E i \in 1..(Len(s) - Len(p) + 1) : SubSeq(s, i, i + Len(p) - 1) = p

IsWhitespace(c) == c \in {" ", "\t", "\n"}

RECURSIVE TrimStart(_)
TrimStart(s) ==
    IF s # "" /\ IsWhitespace(Head(s)) THEN TrimStart(Tail(s)) ELSE s

RECURSIVE TrimEnd(_)
TrimEnd(s) ==
    IF s # "" /\ IsWhitespace(CharAt(s, Len(s)))
    THEN TrimEnd(SubSeq(s, 1, Len(s) - 1))
    ELSE s

Trim(s) == TrimEnd(TrimStart(s))

\* s.indexOf(c) + 1 for a character c: 0 when s does not hold c
IndexOf(s, c) ==
    IF \E i \in 1..Len(s) : CharAt(s, i) = c
    THEN CHOOSE k \in 1..Len(s) :
             /\ CharAt(s, k) = c
             /\ \A j \in 1..(k - 1) : CharAt(s, j) # c
    ELSE 0

\* s.split(sep) for a one-character separator; i is IndexOf(s, sep)
RECURSIVE Split(_, _), SplitAt(_, _, _)
SplitAt(s, sep, i) ==
    IF i = 0 THEN <<s>>
    ELSE <<SubSeq(s, 1, i - 1)>> \o Split(SubSeq(s, i + 1, Len(s)), sep)

Split(s, sep) == SplitAt(s, sep, IndexOf(s, sep))

\* arr.join(sep)
RECURSIVE Join(_, _)
Join(arr, sep) ==
    IF arr = <<>> THEN ""
    ELSE IF Len(arr) = 1 THEN arr[1]
    ELSE arr[1] \o sep \o Join(Tail(arr), sep)

\* arr.includes(x)
ArrIncludes(arr, x) == \E i \in 1..Len(arr) : arr[i] = x

\* arr.pop(): the array without its last element, the empty array unchanged
Pop(arr) == IF arr = <<>> THEN <<>> ELSE SubSeq(arr, 1, Len(arr) - 1)

\* the characters of a string, in order (for (const f of flags))
Chars(s) == [i \in 1..Len(s) |-> CharAt(s, i)]

\* the characters \d matches
Digits == {"0", "1", "2", "3", "4", "5", "6", "7", "8", "9"}

(***************************************************************************)
(* Completions: the outcome of a call that may throw                       *)
(***************************************************************************)
Normal(v) == [type |-> "normal", value |-> v]

Throw(e) == [type |-> "throw", value |-> e]

IsThrow(c) == c.type = "throw"

\* a callback of Array.prototype.some that may throw: the outcome for one
\* element, then the outcome for the remaining ones
SomeOf(one, rest) == IF IsThrow(one) THEN one ELSE IF one.value THEN one ELSE rest

\* Array.isArray(x) ? x : [x]   for x : string | string[]
IsArray(x) == "arr" \in DOMAIN x

AsArray(x) == IF IsArray(x) THEN x.arr ELSE <<x.str>>

Str(s) == [str |-> s]

Arr(a) == [arr |-> a]

\* null, and the test for it
Null == [isNull |-> TRUE]

IsNull(v) == "isNull" \in DOMAIN v

\* obj[field] || []
OrEmpty(obj, field) == IF field \in DOMAIN obj THEN obj[field] ELSE <<>>

(***************************************************************************)
(* new RegExp(pattern) and regex.test(s), for the patterns the rule sets   *)
(* below use: literal characters, \c for a literal c, and a leading ^.     *)
(***************************************************************************)
RECURSIVE Unescape(_)
Unescape(p) ==
    IF p = "" THEN ""
    ELSE IF Head(p) = "\\" /\ Len(p) >= 2
         THEN CharAt(p, 2) \o Unescape(Slice(p, 2))
         ELSE Head(p) \o Unescape(Tail(p))

RegExp(pattern) ==
    [source |-> pattern,
     start  |-> StartsWith(pattern, "^"),
     lit    |-> Unescape(IF StartsWith(pattern, "^") THEN Tail(pattern) ELSE pattern)]

RegExpTest(regex, s) ==
    IF regex.start THEN StartsWith(s, regex.lit) ELSE Includes(s, regex.lit)

(***************************************************************************)
(* parser.ts                                                               *)
(***************************************************************************)
\* os.homedir(): the home directory of the user the guard runs as
homedir == "/home/u"

\* a cache that keeps, for every pattern, a matcher of another pattern
parserCacheSetOther(pattern, cache, regex) ==
    [regex |-> regex, cache |-> cache @@ (pattern :> RegExp("/"))]

\* regexCache.set(pattern, regex); return regex
parserCacheSet(pattern, cache, regex) ==
    [regex |-> regex, cache |-> cache @@ (pattern :> regex)]

\* getRegex of parser.ts: a read-through cache keyed by pattern text.
\* Yields the matcher and the cache after the call.
parserGetRegex(pattern, cache) ==
    IF pattern \in DOMAIN cache
    THEN [regex |-> cache[pattern], cache |-> cache]
    ELSE parserCacheSet(pattern, cache, RegExp(pattern))

\* a loop over the segments that keeps .. when there is nothing to pop
RECURSIVE ResolveKeepsDotDot(_, _)
ResolveKeepsDotDot(segments, resolved) ==
    IF segments = <<>> THEN resolved
    ELSE ResolveKeepsDotDot(Tail(segments),
             IF Head(segments) = ".."
             THEN (IF resolved = <<>> THEN <<"..">> ELSE Pop(resolved))
             ELSE IF Head(segments) # "." /\ Head(segments) # ""
                  THEN Append(resolved, Head(segments))
                  ELSE resolved)

\* the loop of normalizePath over the segments
RECURSIVE Resolve(_, _)
Resolve(segments, resolved) ==
    IF segments = <<>> THEN resolved
    ELSE Resolve(Tail(segments),
                 IF Head(segments) = ".." THEN Pop(resolved)
                 ELSE IF Head(segments) # "." /\ Head(segments) # ""
                      THEN Append(resolved, Head(segments))
                      ELSE resolved)

\* inputPath.replace(/^~/, homedir())
ExpandHome(inputPath) ==
    IF StartsWith(inputPath, "~") THEN homedir \o Tail(inputPath) ELSE inputPath

\* a normalizer that reads hasTraversal off the normalized text
normalizePathFlagsAfter(inputPath) ==
    IF inputPath = ""
    THEN [original |-> inputPath, normalized |-> inputPath,
          hasTraversal |-> FALSE, isAbsolute |-> FALSE]
    ELSE [original     |-> inputPath,
          normalized   |-> "/" \o Join(Resolve(Split(ExpandHome(inputPath), "/"), <<>>), "/"),
          hasTraversal |-> Includes("/" \o Join(Resolve(Split(ExpandHome(inputPath), "/"),
                                                        <<>>), "/"), ".."),
          isAbsolute   |-> StartsWith(inputPath, "/") \/ StartsWith(inputPath, "~")]

normalizePath(inputPath) ==
    IF inputPath = ""
    THEN [original |-> inputPath, normalized |-> inputPath,
          hasTraversal |-> FALSE, isAbsolute |-> FALSE]
    ELSE [original     |-> inputPath,
          normalized   |-> "/" \o Join(Resolve(Split(ExpandHome(inputPath), "/"), <<>>), "/"),
          hasTraversal |-> Includes(inputPath, ".."),
          isAbsolute   |-> StartsWith(inputPath, "/") \/ StartsWith(inputPath, "~")]

\* lines 70-75 of isPathWithinAllowed, with got the outcome of getRegex
\* a containment test that judges the path as written, ".." or not
withinAllowedTestOriginal(pathInfo, got) ==
    [value |-> RegExpTest(got.regex, pathInfo.original), cache |-> got.cache]

withinAllowedTest(pathInfo, got) ==
    [value |-> IF pathInfo.hasTraversal
               THEN RegExpTest(got.regex, pathInfo.normalized)
               ELSE RegExpTest(got.regex, pathInfo.original),
     cache |-> got.cache]

\* Yields the verdict and the parser.ts cache after the call.
isPathWithinAllowed(pathInfo, allowedPattern, cache) ==
    withinAllowedTest(pathInfo, parserGetRegex(allowedPattern, cache))

\* /^-[\d.]+$/.test(text)
IsSignedNumber(text) ==
    /\ Len(text) >= 2
    /\ Head(text) = "-"
    /\ \A i \in 2..Len(text) : CharAt(text, i) \in Digits \cup {"."}

\* /^[/~$.]/.test(text)
IsPathLike(text) == text # "" /\ Head(text) \in {"/", "~", "$", "."}

\* part.text
PartText(part) == IF "text" \in DOMAIN part THEN part.text ELSE ""

\* a loop body that takes every dash-led text of two characters or more
\* for a flag cluster, numbers too
parseTokenNumbersAsFlags(info, text) ==
    IF text = "" THEN info
    ELSE IF StartsWith(text, "--")
    THEN [info EXCEPT !.raw = Append(@, text),
                      !.flags = Append(@, Split(Slice(text, 2), "=")[1])]
    ELSE IF StartsWith(text, "-") /\ Len(text) > 1
    THEN [info EXCEPT !.raw = Append(@, text),
                      !.flags = @ \o Chars(Slice(text, 1))]
    ELSE [info EXCEPT !.raw = Append(@, text),
                      !.args = Append(@, text),
                      !.paths = IF IsPathLike(text) THEN Append(@, text) ELSE @]

\* the body of the loop of parseCommand, for one suffix text
parseToken(info, text) ==
    IF text = "" THEN info
    ELSE IF StartsWith(text, "--")
    THEN [info EXCEPT !.raw = Append(@, text),
                      !.flags = Append(@, Split(Slice(text, 2), "=")[1])]
    ELSE IF StartsWith(text, "-") /\ Len(text) > 1 /\ ~IsSignedNumber(text)
    THEN [info EXCEPT !.raw = Append(@, text),
                      !.flags = @ \o Chars(Slice(text, 1))]
    ELSE [info EXCEPT !.raw = Append(@, text),
                      !.args = Append(@, text),
                      !.paths = IF IsPathLike(text) THEN Append(@, text) ELSE @]

\* the loop of parseCommand over node.suffix
RECURSIVE parseSuffix(_, _)
parseSuffix(suffix, info) ==
    IF suffix = <<>> THEN info
    ELSE parseSuffix(Tail(suffix), parseToken(info, PartText(Head(suffix))))

\* a subcommand for every command name
withSubcommandAlways(info) ==
    IF Len(info.args) > 0
    THEN [cmd |-> info.cmd, args |-> info.args, flags |-> info.flags,
          paths |-> info.paths, raw |-> info.raw,
          subcommand |-> info.args[1], subArgs |-> Tail(info.args)]
    ELSE info

\* lines 162-168 of parseCommand: the git subcommand
withSubcommand(info) ==
    IF info.cmd = "git" /\ Len(info.args) > 0
    THEN [cmd |-> info.cmd, args |-> info.args, flags |-> info.flags,
          paths |-> info.paths, raw |-> info.raw,
          subcommand |-> info.args[1], subArgs |-> Tail(info.args)]
    ELSE info

\* node.name?.text is truthy
HasNameText(node) ==
    "name" \in DOMAIN node /\ "text" \in DOMAIN node.name /\ node.name.text # ""

parseCommand(node) ==
    IF ~HasNameText(node) THEN Null
    ELSE withSubcommand(parseSuffix(OrEmpty(node, "suffix"),
             [cmd |-> node.name.text, args |-> <<>>, flags |-> <<>>,
              paths |-> <<>>, raw |-> <<>>]))

\* if (parsed) commands.push(parsed)
PushParsed(parsed) == IF IsNull(parsed) THEN <<>> ELSE <<parsed>>

RECURSIVE extractCommands(_), extractEach(_)
\* for (const cmd of nodes) commands.push(...extractCommands(cmd))
extractEach(nodes) ==
    IF nodes = <<>> THEN <<>>
    ELSE extractCommands(Head(nodes)) \o extractEach(Tail(nodes))

\* an extractor that looks for commands under every node kind
extractCommandsEveryKind(node) ==
    IF IsNull(node) THEN <<>>
    ELSE IF node.type = "Command" THEN PushParsed(parseCommand(node))
    ELSE extractEach(OrEmpty(node, "commands")) \o extractEach(OrEmpty(node, "list"))
         \o (IF "left" \in DOMAIN node THEN extractCommands(node.left) ELSE <<>>)
         \o (IF "right" \in DOMAIN node THEN extractCommands(node.right) ELSE <<>>)

\* an extractor that takes the right operand of a logical expression first
extractCommandsRightFirst(node) ==
    IF IsNull(node) THEN <<>>
    ELSE CASE node.type \in {"Script", "Pipeline"} ->
                  extractEach(OrEmpty(node, "commands"))
           [] node.type = "LogicalExpression" ->
                  (IF "right" \in DOMAIN node THEN extractCommands(node.right) ELSE <<>>)
                  \o (IF "left" \in DOMAIN node THEN extractCommands(node.left) ELSE <<>>)
           [] node.type = "Command" -> PushParsed(parseCommand(node))
           [] node.type \in {"Subshell", "CompoundList"} ->
                  extractEach(OrEmpty(node, "list"))
           [] OTHER -> <<>>

extractCommands(node) ==
    IF IsNull(node) THEN <<>>
    ELSE CASE node.type \in {"Script", "Pipeline"} ->
                  extractEach(OrEmpty(node, "commands"))
           [] node.type = "LogicalExpression" ->
                  (IF "left" \in DOMAIN node THEN extractCommands(node.left) ELSE <<>>)
                  \o (IF "right" \in DOMAIN node THEN extractCommands(node.right) ELSE <<>>)
           [] node.type = "Command" -> PushParsed(parseCommand(node))
           [] node.type \in {"Subshell", "CompoundList"} ->
                  extractEach(OrEmpty(node, "list"))
           [] OTHER -> <<>>

(***************************************************************************)
(* rules.ts                                                                *)
(***************************************************************************)
\* if (rule[field]) for a field of type string | string[]: present, and not
\* the empty string (every array is truthy)
Has(rule, field) ==
    field \in DOMAIN rule /\ (IsArray(rule[field]) \/ rule[field].str # "")

\* the error V8 raises when a recursion never returns
RangeError == "RangeError: Maximum call stack size exceeded"

\* getRegex of rules.ts.  On a miss it calls getRegex(pattern) again before
\* anything is stored, so the miss repeats until the call stack is exhausted
\* and the call completes by throwing; regexCache.set is never reached.
rulesGetRegex(pattern, cache) ==
    IF pattern \in DOMAIN cache
    THEN Normal(cache[pattern])
    ELSE Throw(RangeError)

\* regex.test(pathInfo.original) || regex.test(pathInfo.normalized), with got
\* the completion of getRegex
blockPathTest(got, pathInfo) ==
    IF IsThrow(got) THEN got
    ELSE Normal(\/ RegExpTest(got.value, pathInfo.original)
                \/ RegExpTest(got.value, pathInfo.normalized))

\* patterns.some(pattern => ...) of matchesBlockRule, for one path
RECURSIVE blockPatternSome(_, _, _)
blockPatternSome(patterns, pathInfo, cache) ==
    IF patterns = <<>> THEN Normal(FALSE)
    ELSE SomeOf(blockPathTest(rulesGetRegex(Head(patterns), cache), pathInfo),
                blockPatternSome(Tail(patterns), pathInfo, cache))

\* pathsToCheck.some(p => patterns.some(...)) of matchesBlockRule
RECURSIVE blockPathSome(_, _, _)
blockPathSome(pathsToCheck, patterns, cache) ==
    IF pathsToCheck = <<>> THEN Normal(FALSE)
    ELSE SomeOf(blockPatternSome(patterns, normalizePath(Head(pathsToCheck)), cache),
                blockPathSome(Tail(pathsToCheck), patterns, cache))

\* getRegex(pattern).test(rawStr), with got the completion of getRegex
argTest(got, rawStr) ==
    IF IsThrow(got) THEN got ELSE Normal(RegExpTest(got.value, rawStr))

\* patterns.some(pattern => getRegex(pattern).test(rawStr))
RECURSIVE argPatternSome(_, _, _)
argPatternSome(patterns, rawStr, cache) ==
    IF patterns = <<>> THEN Normal(FALSE)
    ELSE SomeOf(argTest(rulesGetRegex(Head(patterns), cache), rawStr),
                argPatternSome(Tail(patterns), rawStr, cache))

\* lines 24-28 of matchesBlockRule: TRUE when the rule is not rejected
blockCmdFilter(cmdInfo, rule) ==
    Has(rule, "cmd") => ArrIncludes(AsArray(rule.cmd), cmdInfo.cmd)

\* lines 30-33
blockSubcommandFilter(cmdInfo, rule) ==
    ("subcommand" \in DOMAIN rule /\ rule.subcommand # "")
        => ("subcommand" \in DOMAIN cmdInfo /\ cmdInfo.subcommand = rule.subcommand)

\* rule.flagMode || 'all'
FlagMode(rule) ==
    IF "flagMode" \in DOMAIN rule /\ rule.flagMode # "" THEN rule.flagMode ELSE "all"

\* a flag filter that wants every flag of the rule, whatever the flagMode
blockFlagFilterAll(cmdInfo, rule) ==
    Has(rule, "flags") =>
        \A k \in 1..Len(AsArray(rule.flags)) :
            ArrIncludes(cmdInfo.flags, AsArray(rule.flags)[k])

\* a flag filter that is content with any one of the rule's flags
blockFlagFilterAny(cmdInfo, rule) ==
    Has(rule, "flags") =>
        \E k \in 1..Len(AsArray(rule.flags)) :
            ArrIncludes(cmdInfo.flags, AsArray(rule.flags)[k])

\* lines 35-47
blockFlagFilter(cmdInfo, rule) ==
    Has(rule, "flags") =>
        IF FlagMode(rule) = "any"
        THEN \E k \in 1..Len(AsArray(rule.flags)) :
                 ArrIncludes(cmdInfo.flags, AsArray(rule.flags)[k])
        ELSE \A k \in 1..Len(AsArray(rule.flags)) :
                 ArrIncludes(cmdInfo.flags, AsArray(rule.flags)[k])

\* cmdInfo.paths.length > 0 ? cmdInfo.paths : cmdInfo.args
PathsToCheck(cmdInfo) == IF Len(cmdInfo.paths) > 0 THEN cmdInfo.paths ELSE cmdInfo.args

\* lines 49-67: a completion, TRUE when the rule is not rejected
blockPathFilter(cmdInfo, rule, cache) ==
    IF ~Has(rule, "pathPatterns") THEN Normal(TRUE)
    ELSE IF Len(PathsToCheck(cmdInfo)) = 0 THEN Normal(FALSE)
    ELSE blockPathSome(PathsToCheck(cmdInfo), AsArray(rule.pathPatterns), cache)

\* lines 69-79: a completion, TRUE when the rule is not rejected
blockArgFilter(cmdInfo, rule, cache) ==
    IF ~Has(rule, "argPatterns") THEN Normal(TRUE)
    ELSE argPatternSome(AsArray(rule.argPatterns), Join(cmdInfo.raw, " "), cache)

\* lines 66-81, with matchesPath the completion of the path filter
blockAfterPath(matchesPath, cmdInfo, rule, cache) ==
    IF IsThrow(matchesPath) THEN matchesPath
    ELSE IF ~matchesPath.value THEN Normal(FALSE)
    ELSE blockArgFilter(cmdInfo, rule, cache)

\* A completion: Normal(TRUE), Normal(FALSE), or the error getRegex threw.
matchesBlockRule(cmdInfo, rule, cache) ==
    IF ~blockCmdFilter(cmdInfo, rule) THEN Normal(FALSE)
    ELSE IF ~blockSubcommandFilter(cmdInfo, rule) THEN Normal(FALSE)
    ELSE IF ~blockFlagFilter(cmdInfo, rule) THEN Normal(FALSE)
    ELSE blockAfterPath(blockPathFilter(cmdInfo, rule, cache), cmdInfo, rule, cache)

RECURSIVE allowPatternSome(_, _, _)
\* one turn of patterns.some(...): one is the outcome for the first pattern
allowPatternNext(one, patterns, pathInfo) ==
    IF one.value THEN one ELSE allowPatternSome(Tail(patterns), pathInfo, one.cache)

\* patterns.some(pattern => isPathWithinAllowed(pathInfo, pattern)),
\* with the parser.ts cache threaded through the calls
allowPatternSome(patterns, pathInfo, cache) ==
    IF patterns = <<>> THEN [value |-> FALSE, cache |-> cache]
    ELSE allowPatternNext(isPathWithinAllowed(pathInfo, Head(patterns), cache),
                          patterns, pathInfo)

RECURSIVE allowPathSome(_, _, _)
\* one turn of pathsToCheck.some(...): one is the outcome for the first path
allowPathNext(one, pathsToCheck, patterns) ==
    IF one.value THEN one ELSE allowPathSome(Tail(pathsToCheck), patterns, one.cache)

\* pathsToCheck.some(p => patterns.some(...)) of matchesAllowRule
allowPathSome(pathsToCheck, patterns, cache) ==
    IF pathsToCheck = <<>> THEN [value |-> FALSE, cache |-> cache]
    ELSE allowPathNext(allowPatternSome(patterns, normalizePath(Head(pathsToCheck)), cache),
                       pathsToCheck, patterns)

\* an allow rule that looks at the command name only
matchesAllowRuleCmdOnly(cmdInfo, rule, cache) ==
    [value |-> Has(rule, "cmd") => ArrIncludes(AsArray(rule.cmd), cmdInfo.cmd),
     cache |-> cache]

\* Yields the verdict and the parser.ts cache after the call.
matchesAllowRule(cmdInfo, rule, cache) ==
    IF Has(rule, "cmd") /\ ~ArrIncludes(AsArray(rule.cmd), cmdInfo.cmd)
    THEN [value |-> FALSE, cache |-> cache]
    ELSE IF Has(rule, "pathPatterns")
    THEN IF Len(PathsToCheck(cmdInfo)) = 0
         THEN [value |-> FALSE, cache |-> cache]
         ELSE allowPathSome(PathsToCheck(cmdInfo), AsArray(rule.pathPatterns), cache)
    ELSE [value |-> TRUE, cache |-> cache]

\* (cmd.commands || []).map(c => c.name?.text).filter(Boolean)
RECURSIVE pipeNames(_)
pipeNames(stages) ==
    IF stages = <<>> THEN <<>>
    ELSE (IF HasNameText(Head(stages)) THEN <<Head(stages).name.text>> ELSE <<>>)
         \o pipeNames(Tail(stages))

\* Array.isArray(rule.cmd) ? rule.cmd : [rule.cmd]; a rule without cmd gives
\* [undefined], which includes no command name
PipeSources(rule) == IF "cmd" \in DOMAIN rule THEN AsArray(rule.cmd) ELSE <<>>

\* a pipeline test that looks at the stage right after the source only
pipeRuleMatchesAdjacent(rule, pipeCommands) ==
    \E i \in 1..(Len(pipeCommands) - 1) :
        /\ ArrIncludes(PipeSources(rule), pipeCommands[i])
        /\ ArrIncludes(AsArray(rule.pipeTo), pipeCommands[i + 1])

\* the loops over i and j of checkPipeline, for one rule and one pipeline
pipeRuleMatches(rule, pipeCommands) ==
    \E i \in 1..Len(pipeCommands) :
        /\ ArrIncludes(PipeSources(rule), pipeCommands[i])
        /\ \E j \in (i + 1)..Len(pipeCommands) :
               ArrIncludes(AsArray(rule.pipeTo), pipeCommands[j])

\* for (const rule of rules.block || []) of checkPipeline, for one pipeline
RECURSIVE pipeFirstRule(_, _)
pipeFirstRule(block, pipeCommands) ==
    IF block = <<>> THEN Null
    ELSE IF Has(Head(block), "pipeTo") /\ pipeRuleMatches(Head(block), pipeCommands)
    THEN Head(block)
    ELSE pipeFirstRule(Tail(block), pipeCommands)

RECURSIVE pipeScan(_, _)
\* the end of one turn of the loop over ast.commands: hit is the rule the
\* pipeline satisfied, or Null
pipeScanNext(hit, commands, block) ==
    IF IsNull(hit) THEN pipeScan(Tail(commands), block) ELSE hit

\* for (const cmd of ast.commands || []) of checkPipeline
pipeScan(commands, block) ==
    IF commands = <<>> THEN Null
    ELSE IF Head(commands).type # "Pipeline" THEN pipeScan(Tail(commands), block)
    ELSE pipeScanNext(pipeFirstRule(block, pipeNames(OrEmpty(Head(commands), "commands"))),
                      commands, block)

RECURSIVE LiftPipelines(_), LiftEach(_)
\* the nodes of a tree with the operands of its logical expressions and the
\* lists of its subshells brought up to one level
LiftPipelines(node) ==
    CASE node.type = "LogicalExpression" ->
             LiftPipelines(node.left) \o LiftPipelines(node.right)
      [] node.type \in {"Script", "Subshell", "CompoundList"} ->
             LiftEach(IF node.type = "Script" THEN OrEmpty(node, "commands")
                      ELSE OrEmpty(node, "list"))
      [] OTHER -> <<node>>

LiftEach(nodes) ==
    IF nodes = <<>> THEN <<>>
    ELSE LiftPipelines(Head(nodes)) \o LiftEach(Tail(nodes))

\* a pipeline matcher that looks for pipelines at every depth of any tree
checkPipelineNested(ast, rules) ==
    IF IsNull(ast) THEN Null
    ELSE pipeScan(LiftPipelines(ast), OrEmpty(rules, "block"))

\* The matched rule, or Null.
checkPipeline(ast, rules) ==
    IF IsNull(ast) \/ ast.type # "Script" THEN Null
    ELSE pipeScan(OrEmpty(ast, "commands"), OrEmpty(rules, "block"))

RECURSIVE allowScan(_, _, _)
\* one turn of the loop over rules.allow: m is the outcome of matchesAllowRule
allowScanNext(m, allow, cmdInfo) ==
    IF m.value THEN [rule |-> Head(allow), cache |-> m.cache]
    ELSE allowScan(Tail(allow), cmdInfo, m.cache)

\* for (const rule of rules.allow || []) of checkCommand: the first matching
\* rule or Null, and the parser.ts cache after the loop
allowScan(allow, cmdInfo, cache) ==
    IF allow = <<>> THEN [rule |-> Null, cache |-> cache]
    ELSE allowScanNext(matchesAllowRule(cmdInfo, Head(allow), cache), allow, cmdInfo)

RECURSIVE blockScan(_, _, _)
\* one turn of the loop over rules.block: m is the completion of matchesBlockRule
blockScanNext(m, block, cmdInfo, cache) ==
    IF IsThrow(m) THEN m
    ELSE IF m.value THEN Normal(Head(block))
    ELSE blockScan(Tail(block), cmdInfo, cache)

\* a block loop that does not pass over the pipeTo rules
blockScanAll(block, cmdInfo, cache) ==
    IF block = <<>> THEN Normal(Null)
    ELSE blockScanNext(matchesBlockRule(cmdInfo, Head(block), cache),
                       block, cmdInfo, cache)

\* for (const rule of rules.block || []) of checkCommand: a completion
\* holding the first matching rule or Null
blockScan(block, cmdInfo, cache) ==
    IF block = <<>> THEN Normal(Null)
    ELSE IF Has(Head(block), "pipeTo") THEN blockScan(Tail(block), cmdInfo, cache)
    ELSE blockScanNext(matchesBlockRule(cmdInfo, Head(block), cache),
                       block, cmdInfo, cache)

\* lines 162-170 of checkCommand, with hit the completion of the block loop
blockResult(hit) ==
    IF IsThrow(hit) THEN hit
    ELSE IF IsNull(hit.value) THEN Normal([blocked |-> FALSE])
    ELSE Normal([blocked |-> TRUE, rule |-> hit.value])

\* lines 155-170 of checkCommand, with allowed the outcome of the allow loop
checkAfterAllow(allowed, cmdInfo, rules, rulesCache) ==
    IF ~IsNull(allowed.rule)
    THEN [completion |-> Normal([blocked |-> FALSE,
                                 reason  |-> "Allowed: " \o allowed.rule.name]),
          cache |-> allowed.cache]
    ELSE [completion |-> blockResult(blockScan(OrEmpty(rules, "block"), cmdInfo, rulesCache)),
          cache |-> allowed.cache]

\* the end of a check that consulted the block rules first
blockFirstThen(blocked, cmdInfo, rules, parserCache) ==
    IF IsThrow(blocked) \/ blocked.value.blocked
    THEN [completion |-> blocked, cache |-> parserCache]
    ELSE checkAfterAllow(allowScan(OrEmpty(rules, "allow"), cmdInfo, parserCache),
                         cmdInfo, [allow |-> OrEmpty(rules, "allow")], <<>>)

\* a check that consults the block rules before the allow rules
checkCommandBlockFirst(cmdInfo, rules, rulesCache, parserCache) ==
    blockFirstThen(blockResult(blockScan(OrEmpty(rules, "block"), cmdInfo, rulesCache)),
                   cmdInfo, rules, parserCache)

\* Yields the completion of the call (a CheckResult, or the error thrown) and
\* the parser.ts cache after it; rulesCache is the cache of rules.ts.
checkCommand(cmdInfo, rules, rulesCache, parserCache) ==
    checkAfterAllow(allowScan(OrEmpty(rules, "allow"), cmdInfo, parserCache),
                    cmdInfo, rules, rulesCache)

(***************************************************************************)
(* parse(command) of bash-parser, as commands/pre.ts uses it: words        *)
(* separated by blanks, the operators && || | & ; newline ( ), and a       *)
(* command substitution kept inside its word.  The tree has the node kinds *)
(* of types.ts (ASTNode); a syntax error is a thrown completion.           *)
(***************************************************************************)
\* The backquote character: a TLA+ string literal cannot hold U+0060, so the
\* command texts of the model write it as this character, which they use
\* for nothing else.
Backquote == "#"

Operators == {"&&", "||", "|", "&", ";", "\n", "(", ")"}

\* the text up to and including the first close, or all of it
RECURSIVE UpTo(_, _)
UpTo(s, close) ==
    IF s = "" THEN ""
    ELSE IF Head(s) = close THEN close
    ELSE Head(s) \o UpTo(Tail(s), close)

\* the word read so far, as a token
Flush(cur) == IF cur = "" THEN <<>> ELSE <<cur>>

RECURSIVE Lex(_, _)
\* a command substitution sub at the head of s joins the word being read
LexSubstitution(s, cur, sub) == Lex(Slice(s, Len(sub)), cur \o sub)

\* the tokens of s; cur is the word being read
Lex(s, cur) ==
    IF s = "" THEN Flush(cur)
    ELSE IF StartsWith(s, "$(") THEN LexSubstitution(s, cur, UpTo(s, ")"))
    ELSE IF Head(s) = Backquote
    THEN LexSubstitution(s, cur, Backquote \o UpTo(Tail(s), Backquote))
    ELSE IF StartsWith(s, "&&") \/ StartsWith(s, "||")
    THEN Flush(cur) \o <<SubSeq(s, 1, 2)>> \o Lex(Slice(s, 2), "")
    ELSE IF Head(s) \in Operators
    THEN Flush(cur) \o <<Head(s)>> \o Lex(Tail(s), "")
    ELSE IF Head(s) \in {" ", "\t"}
    THEN Flush(cur) \o Lex(Tail(s), "")
    ELSE Lex(Tail(s), cur \o Head(s))

SyntaxError == [ok |-> FALSE]

\* the leading words of a token list
RECURSIVE TakeWords(_)
TakeWords(toks) ==
    IF toks # <<>> /\ Head(toks) \notin Operators
    THEN <<Head(toks)>> \o TakeWords(Tail(toks))
    ELSE <<>>

RECURSIVE SkipNewlines(_)
SkipNewlines(toks) ==
    IF toks # <<>> /\ Head(toks) = "\n" THEN SkipNewlines(Tail(toks)) ELSE toks

RECURSIVE ParseList(_, _), ParseAndOr(_, _), ParsePipeline(_, _), ParseCmd(_)

\* ( list ): r is the list read after the opening parenthesis
SubshellNode(r) ==
    IF r.ok /\ r.nodes # <<>> /\ r.rest # <<>> /\ Head(r.rest) = ")"
    THEN [ok |-> TRUE, rest |-> Tail(r.rest),
          node |-> [type |-> "Subshell", list |-> r.nodes]]
    ELSE SyntaxError

\* word+: ws are the leading words of toks
CommandNode(ws, toks) ==
    IF ws = <<>> THEN SyntaxError
    ELSE [ok |-> TRUE, rest |-> SubSeq(toks, Len(ws) + 1, Len(toks)),
          node |-> [type |-> "Command", name |-> [text |-> Head(ws)],
                    suffix |-> [k \in 1..(Len(ws) - 1) |-> [text |-> ws[k + 1]]]]]

\* command := word+ | ( list )
ParseCmd(toks) ==
    IF toks = <<>> THEN SyntaxError
    ELSE IF Head(toks) = "(" THEN SubshellNode(ParseList(Tail(toks), <<>>))
    ELSE CommandNode(TakeWords(toks), toks)

\* r is the command just read, stages the stages before it
PipelineNext(r, stages) ==
    IF ~r.ok THEN SyntaxError
    ELSE IF r.rest # <<>> /\ Head(r.rest) = "|"
    THEN ParsePipeline(SkipNewlines(Tail(r.rest)), Append(stages, r.node))
    ELSE [ok |-> TRUE, rest |-> r.rest,
          node |-> IF stages = <<>> THEN r.node
                   ELSE [type |-> "Pipeline", commands |-> Append(stages, r.node)]]

\* pipeline := command ( | command )*
ParsePipeline(toks, stages) == PipelineNext(ParseCmd(toks), stages)

\* the expression so far: left is the one before with its operator, or Null
AndOrNode(r, left) ==
    IF IsNull(left) THEN r.node
    ELSE [type |-> "LogicalExpression", op |-> left.op,
          left |-> left.node, right |-> r.node]

\* r is the pipeline just read
AndOrNext(r, left) ==
    IF ~r.ok THEN SyntaxError
    ELSE IF r.rest # <<>> /\ Head(r.rest) \in {"&&", "||"}
    THEN ParseAndOr(SkipNewlines(Tail(r.rest)),
                    [op |-> IF Head(r.rest) = "&&" THEN "and" ELSE "or",
                     node |-> AndOrNode(r, left)])
    ELSE [ok |-> TRUE, rest |-> r.rest, node |-> AndOrNode(r, left)]

\* and_or := pipeline ( (&& | ||) pipeline )*, left-associative
ParseAndOr(toks, left) == AndOrNext(ParsePipeline(toks, <<>>), left)

\* r is the and_or just read, nodes the ones before it
ListNext(r, nodes) ==
    IF ~r.ok THEN SyntaxError
    ELSE IF r.rest = <<>> \/ Head(r.rest) = ")"
    THEN [ok |-> TRUE, rest |-> r.rest, nodes |-> Append(nodes, r.node)]
    ELSE IF Head(r.rest) \in {";", "&", "\n"}
    THEN ParseList(Tail(r.rest), Append(nodes, r.node))
    ELSE SyntaxError

\* ts is the input after its leading newlines
ListStart(ts, nodes) ==
    IF ts = <<>> \/ Head(ts) = ")" THEN [ok |-> TRUE, rest |-> ts, nodes |-> nodes]
    ELSE ListNext(ParseAndOr(ts, Null), nodes)

\* list := and_or ( (; | & | newline) and_or )*, up to the end or a closing
\* parenthesis
ParseList(toks, nodes) == ListStart(SkipNewlines(toks), nodes)

\* the Script node of a list that used up the input
ScriptNode(r) ==
    IF r.ok /\ r.rest = <<>>
    THEN Normal([type |-> "Script", commands |-> r.nodes])
    ELSE Throw("SyntaxError")

\* A completion: the Script node, or the parser's error.
parse(command) == ScriptNode(ParseList(Lex(command, ""), <<>>))

(***************************************************************************)
(* commands/pre.ts                                                         *)
(***************************************************************************)
SAFE_COMMAND_PREFIXES ==
    << "echo ", "echo\t", "printf ",
       "ls ", "ls\t", "ls\n", "ls",
       "pwd", "date", "whoami", "id",
       "cat ", "head ", "tail ", "wc ",
       "grep ", "awk ", "sed ",
       "cd ", "cd\t",
       "true", "false", ":" >>

\* lines 39-53 of isFastPathSafe, with trimmed = command.trim()
fastPathScan(trimmed) ==
    \E k \in 1..Len(SAFE_COMMAND_PREFIXES) :
        /\ \/ trimmed = Trim(SAFE_COMMAND_PREFIXES[k])
           \/ StartsWith(trimmed, SAFE_COMMAND_PREFIXES[k])
        /\ ~Includes(trimmed, "|")
        /\ ~Includes(trimmed, "&&")
        /\ ~Includes(trimmed, "||")
        /\ ~Includes(trimmed, ";")
        /\ ~Includes(trimmed, "$(")
        /\ ~Includes(trimmed, Backquote)

isFastPathSafe(command) == fastPathScan(Trim(command))

NotBlocked == Normal([blocked |-> FALSE])

\* { blocked: true, rule: { name: rule.name, reason: rule.reason } }
Blocked(rule) ==
    Normal([blocked |-> TRUE, rule |-> [name |-> rule.name, reason |-> rule.reason]])

\* result.blocked && result.rule, for the value of a normal completion
BlockedWithRule(value) == value.blocked /\ "rule" \in DOMAIN value

(***************************************************************************)
(* packages/guard/src/pre.ts: checkBashCommand without the fast path       *)
(***************************************************************************)
RECURSIVE fullPathLoop(_, _, _, _)
\* one turn of the loop: r is the outcome of checkCommand for the first command
fullPathTurn(r, commands, rules, rulesCache) ==
    IF IsThrow(r.completion) THEN r.completion
    ELSE IF BlockedWithRule(r.completion.value) THEN Blocked(r.completion.value.rule)
    ELSE fullPathLoop(Tail(commands), rules, rulesCache, r.cache)

\* for (const cmdInfo of commands)
fullPathLoop(commands, rules, rulesCache, parserCache) ==
    IF commands = <<>> THEN NotBlocked
    ELSE fullPathTurn(checkCommand(Head(commands), rules, rulesCache, parserCache),
                      commands, rules, rulesCache)

\* lines 39-55, with pipeRule the outcome of checkPipeline
fullPathAfterPipeline(pipeRule, ast, rules, rulesCache, parserCache) ==
    IF ~IsNull(pipeRule) THEN Blocked(pipeRule)
    ELSE fullPathLoop(extractCommands(ast), rules, rulesCache, parserCache)

\* lines 31-55, with parsed the completion of parse(command)
fullPathAfterParse(parsed, rules, rulesCache, parserCache) ==
    IF IsThrow(parsed) THEN NotBlocked
    ELSE fullPathAfterPipeline(checkPipeline(parsed.value, rules), parsed.value,
                               rules, rulesCache, parserCache)

\* The completion of the call.
fullPath(command, rules, rulesCache, parserCache) ==
    fullPathAfterParse(parse(command), rules, rulesCache, parserCache)

(***************************************************************************)
(* Inputs: the rule sets rules.json may hold, and the command texts        *)
(***************************************************************************)
RmRf == [name |-> "rm-rf", cmd |-> Str("rm"), flags |-> Arr(<<"r", "f">>),
         reason |-> "recursive force delete is dangerous"]

RmSafe == [name |-> "rm-safe", cmd |-> Str("rm"), pathPatterns |-> Str("^/tmp/"),
           reason |-> "removing from /tmp is ok"]

Chmod777 == [name |-> "chmod-777", cmd |-> Str("chmod"), flags |-> Str("R"),
             argPatterns |-> Str("777"),
             reason |-> "world-writable permissions"]

CurlBash == [name |-> "curl-bash", cmd |-> Arr(<<"curl", "wget">>),
             pipeTo |-> Arr(<<"bash", "sh", "zsh">>), reason |-> "remote code execution"]

ReadEnv == [name |-> "read-env", cmd |-> Str("cat"), pathPatterns |-> Str("\\.env"),
            reason |-> "reading secrets"]

ReadEtc == [name |-> "read-etc", cmd |-> Arr(<<"cat", "head">>),
            pathPatterns |-> Arr(<<"^/etc/", "^/root/">>), reason |-> "system files"]

LsBash == [name |-> "ls-bash", cmd |-> Str("ls"), pipeTo |-> Str("bash"),
           reason |-> "listing piped to a shell"]

RmForce == [name |-> "rm-force", cmd |-> Str("rm"), flags |-> Arr(<<"f", "r">>),
            flagMode |-> "any", reason |-> "has force or recursive"]

RuleSets ==
    { [block |-> <<RmRf>>, allow |-> <<>>],
      [block |-> <<RmRf, Chmod777>>, allow |-> <<RmSafe>>],
      [block |-> <<CurlBash>>, allow |-> <<>>],
      [block |-> <<CurlBash, RmRf>>, allow |-> <<RmSafe>>],
      [block |-> <<ReadEnv, ReadEtc, RmRf>>, allow |-> <<>>],
      [block |-> <<CurlBash, LsBash, RmForce, RmRf>>, allow |-> <<>>] }

\* the most simple commands a generated command text joins
MaxCommands == 2

Simple == {"ls", "rm -rf /", "curl x", "bash"}

Separators == {" && ", "; ", " | ", "\n", " & "}

RECURSIVE Compound(_)
Compound(n) ==
    IF n <= 1 THEN Simple
    ELSE {a \o s \o b : a \in Compound(n - 1), s \in Separators, b \in Simple}

\* texts of the test suites and of the cases the rules distinguish
Special ==
    { "", "ls -la", "lsblk", "rm temp.txt", "rm -r dir", "rm -fr /", "rm -r -f /",
      "rm --recursive --force /", "rm -rf /tmp/../etc", "rm -rf /tmp/foo /",
      "chmod -R 777 /var/www", "cat /tmp/../etc/passwd; ls", "head -10 f",
      "this is not ( valid bash", "echo $(id)", "echo #id#", "git push --force origin main",
      "curl x | tee log | bash", "cat f | grep p | wc -l", "cd /tmp && curl x | bash",
      "(curl x | bash)", "true & (rm -rf /)", "(ls; rm -rf /)", "curl x | (bash)",
      "ls | bash; wget x | sh", "ls || rm -rf /", "rm -rf /tmp/foo",
      "rm -rf /tmp/foo && rm -rf /", "rm -rf /tmp/foo; ls", "cat .env", "cat .env; ls",
      "ls; cat .env", "cat .env; rm -rf /", "cat f; ls", "cat f | grep p" }

Commands == UNION {Compound(n) : n \in 1..MaxCommands} \cup Special

(***************************************************************************)
(* State                                                                   *)
(***************************************************************************)
VARIABLES
    rules,            \* pre.ts: the RulesConfig loaded from rules.json
    rulesRegexCache,  \* rules.ts: regexCache
    parserRegexCache, \* parser.ts: regexCache
    pc,               \* where the current call of checkBashCommand stands
    command,          \* its argument
    ast,              \* its local ast
    pipeRule,         \* its local pipeRule
    commands,         \* its local commands
    idx,              \* the position of its for-loop in commands
    checked,          \* the calls of checkCommand it has made, with their outcome
    calls,            \* the functions it has called, in order
    result,           \* its completion, once it has returned or thrown
    direct,           \* the last direct call of an exported function of
                      \* parser.ts or rules.ts, as their tests make them
    stdin,            \* hook process: what readHookInput() will complete with
    hookPc,           \* hook process: where runPre stands
    data,             \* hook process: the local data of runPre
    stderr,           \* hook process: the lines written with console.error
    exitCode,         \* hook process: the argument of process.exit, once called
    scratch,          \* post.ts: the files of the scratch directory, by path
    locked,           \* post.ts: the paths unlinkSync fails on
    post,             \* post.ts: the call of offloadOutput, with its locals
    conns,            \* daemon.ts: the connections, each with the buffer of its handler
    env,              \* llm.ts: the providers whose API key is in process.env
    modelIndex,       \* llm.ts: modelIndex
    llm               \* llm.ts: the call of chat, with its locals

\* the state of the guard inside one process
guardVars == <<rules, rulesRegexCache, parserRegexCache, pc, command, ast, pipeRule,
               commands, idx, checked, calls, result, direct>>

\* the state of the hook process around runPre
hookVars == <<stdin, hookPc, data, stderr, exitCode>>

\* the state around offloadOutput
postVars == <<scratch, locked, post>>

\* the state of the daemon's connection handlers
daemonVars == <<conns>>

\* the state of llm.ts
llmVars == <<env, modelIndex, llm>>

\* the state of the programs around the guard
elsewhere == <<hookVars, postVars, daemonVars, llmVars>>

vars == <<rules, rulesRegexCache, parserRegexCache, pc, command, ast, pipeRule,
          commands, idx, checked, calls, result, direct, elsewhere>>

\* runPre has not been entered
HookIdle ==
    /\ stdin = Null
    /\ hookPc = "start"
    /\ data = Null
    /\ stderr = <<>>
    /\ exitCode = Null

\* the modules of the guard are loaded and nothing has been called
GuardInit ==
    /\ rules \in RuleSets
    /\ rulesRegexCache = <<>>
    /\ parserRegexCache = <<>>
    /\ pc = "idle"
    /\ command = ""
    /\ ast = Null
    /\ pipeRule = Null
    /\ commands = <<>>
    /\ idx = 1
    /\ checked = <<>>
    /\ calls = <<>>
    /\ result = Null
    /\ direct = Null

\* offloadOutput has not been called and the scratch directory is empty
PostIdle ==
    /\ scratch = <<>>
    /\ locked = {}
    /\ post = Null

\* the daemon has no connection
DaemonIdle == conns = <<>>

\* chat has not been called, no provider has a key and no model has rotated
LlmIdle ==
    /\ env = {}
    /\ modelIndex = [p \in {"cerebras", "groq", "openai"} |-> 0]
    /\ llm = Null

Init ==
    /\ GuardInit
    /\ HookIdle
    /\ PostIdle
    /\ DaemonIdle
    /\ LlmIdle

\* checkBashCommand(c) is called; lines 61-64: the fast path
Call(c) ==
    /\ pc = "idle"
    /\ command' = c
    /\ calls' = <<"isFastPathSafe">>
    /\ IF isFastPathSafe(c)
       THEN pc' = "returned" /\ result' = NotBlocked
       ELSE pc' = "parse" /\ result' = Null
    /\ UNCHANGED <<elsewhere, direct, rules, rulesRegexCache, parserRegexCache, ast, pipeRule,
                   commands, idx, checked>>

\* an end of parsing that lets the parser's error out
ParseDoneRethrows(parsed) ==
    IF IsThrow(parsed)
    THEN pc' = "returned" /\ result' = parsed /\ ast' = ast
    ELSE pc' = "pipeline" /\ result' = result /\ ast' = parsed.value

\* lines 68-73: the try/catch around parse, with parsed its completion
ParseDone(parsed) ==
    IF IsThrow(parsed)
    THEN pc' = "returned" /\ result' = NotBlocked /\ ast' = ast
    ELSE pc' = "pipeline" /\ result' = result /\ ast' = parsed.value

\* lines 66-73: parse, and fail open when the parser throws
Parse ==
    /\ pc = "parse"
    /\ calls' = Append(calls, "parse")
    /\ ParseDone(parse(command))
    /\ UNCHANGED <<elsewhere, direct, rules, rulesRegexCache, parserRegexCache, command, pipeRule,
                   commands, idx, checked>>

\* lines 77-82, with hit the outcome of checkPipeline
PipelineDone(hit) ==
    /\ pipeRule' = hit
    /\ IF ~IsNull(hit)
       THEN /\ pc' = "returned"
            /\ result' = Blocked(hit)
            /\ calls' = Append(calls, "checkPipeline")
            /\ commands' = commands
       ELSE /\ pc' = "loop"
            /\ result' = result
            /\ calls' = calls \o <<"checkPipeline", "extractCommands">>
            /\ commands' = extractCommands(ast)

\* lines 75-82: the pipeline rules, then the extraction
Pipeline ==
    /\ pc = "pipeline"
    /\ PipelineDone(checkPipeline(ast, rules))
    /\ idx' = 1
    /\ UNCHANGED <<elsewhere, direct, rules, rulesRegexCache, parserRegexCache, command, ast, checked>>

\* lines 85-88, with r the outcome of checkCommand
CheckDone(r) ==
    /\ parserRegexCache' = r.cache
    /\ checked' = Append(checked, [cmdInfo |-> commands[idx], completion |-> r.completion])
    /\ IF IsThrow(r.completion)
       THEN pc' = "returned" /\ result' = r.completion /\ idx' = idx
       ELSE IF BlockedWithRule(r.completion.value)
       THEN pc' = "returned" /\ result' = Blocked(r.completion.value.rule) /\ idx' = idx
       ELSE pc' = "loop" /\ result' = result /\ idx' = idx + 1

\* lines 84-89: one turn of the loop over the extracted commands
CheckNext ==
    /\ pc = "loop"
    /\ idx <= Len(commands)
    /\ calls' = Append(calls, "checkCommand")
    /\ CheckDone(checkCommand(commands[idx], rules, rulesRegexCache, parserRegexCache))
    /\ UNCHANGED <<elsewhere, direct, rules, rulesRegexCache, command, ast, pipeRule, commands>>

\* line 91: the loop has ended with no command blocked
Finish ==
    /\ pc = "loop"
    /\ idx > Len(commands)
    /\ pc' = "returned"
    /\ result' = NotBlocked
    /\ UNCHANGED <<elsewhere, direct, rules, rulesRegexCache, parserRegexCache, command, ast, pipeRule,
                   commands, idx, checked, calls>>

\* the caller has the completion; the locals of the call are gone and the
\* module-level state remains
Return ==
    /\ pc = "returned"
    /\ pc' = "idle"
    /\ command' = ""
    /\ ast' = Null
    /\ pipeRule' = Null
    /\ commands' = <<>>
    /\ idx' = 1
    /\ checked' = <<>>
    /\ calls' = <<>>
    /\ result' = Null
    /\ UNCHANGED <<elsewhere, direct, rules, rulesRegexCache, parserRegexCache>>

Next ==
    \/ \E c \in Commands : Call(c)
    \/ Parse
    \/ Pipeline
    \/ CheckNext
    \/ Finish
    \/ Return

Spec == Init /\ [][Next]_vars


(***************************************************************************)
(* Direct calls of the exported functions, as parser.test.ts and           *)
(* rules.test.ts make them                                                 *)
(***************************************************************************)
MaxSegments == 3

Segments == {"", ".", "..", "a", "~", "a..b"}

SpecialPaths ==
    { "/a/b/c/../../d", "/tmp/../etc/passwd", "/../..", "/tmp/foo/../bar",
      "~/x/../y", "./a/./b/", "a/b/../../../c", "/home/user/file.txt" }

\* the texts of up to MaxSegments segments joined by /
Paths ==
    {Join(s, "/") : s \in UNION {[1..n -> Segments] : n \in 0..MaxSegments}}
        \cup SpecialPaths

MaxSuffix == 2

Tokens ==
    { "", "-", "--", "--force", "--force=x=y", "-rf", "-f", "-10", "-1.5", "-1a",
      "/", "~x", "$H", ".env", "file", "push" }

Names == {"rm", "git"}

CommandOf(name, texts) ==
    [type |-> "Command", name |-> [text |-> name],
     suffix |-> [k \in 1..Len(texts) |-> [text |-> texts[k]]]]

SpecialNodes ==
    { CommandOf("git", <<"push", "--force", "origin", "main">>),
      CommandOf("git", <<"--no-pager", "-C", "/r", "log", "-10", "x">>),
      CommandOf("head", <<"-10", "file.txt">>),
      CommandOf("", <<"-rf", "/">>),
      [type |-> "Command", name |-> [text |-> "ls"]],
      [type |-> "Command", suffix |-> <<[text |-> "x"]>>] }

CommandNodes ==
    {CommandOf(n, s) : n \in Names,
                       s \in UNION {[1..k -> Tokens] : k \in 0..MaxSuffix}}
        \cup SpecialNodes

MaxDepth == 2

Leaves ==
    { CommandOf("a", <<"-x", "/p">>), CommandOf("b", <<>>),
      [type |-> "Command", suffix |-> <<[text |-> "x"]>>],
      [type |-> "Function"],
      [type |-> "If", commands |-> <<CommandOf("rm", <<"-rf", "/">>)>>,
       list |-> <<CommandOf("rm", <<"-rf", "/">>)>>,
       left |-> CommandOf("rm", <<"-rf", "/">>),
       right |-> CommandOf("rm", <<"-rf", "/">>)] }

\* a node of the given kind over the given children
Container(kind, children) ==
    IF kind \in {"Script", "Pipeline"}
    THEN [type |-> kind, commands |-> children]
    ELSE [type |-> kind, list |-> children]

\* the trees of depth d at most: a container holds a tree, or a leaf and a
\* tree in either order; a logical expression holds a tree and a leaf, in
\* either order, or lacks an operand
RECURSIVE Trees(_)
Grow(below) ==
    below
    \cup {Container(k, <<>>) : k \in {"Script", "Pipeline", "Subshell", "CompoundList"}}
    \cup {[type |-> k] : k \in {"Script", "Subshell"}}
    \cup {Container(k, <<t>>) :
              k \in {"Script", "Pipeline", "Subshell", "CompoundList"}, t \in below}
    \cup {Container(k, <<CommandOf("c", <<>>), t>>) : k \in {"Script", "Subshell"}, t \in below}
    \cup {Container(k, <<t, CommandOf("c", <<>>)>>) : k \in {"Pipeline", "CompoundList"}, t \in below}
    \cup {[type |-> "LogicalExpression", op |-> "and", left |-> t,
           right |-> CommandOf("c", <<>>)] : t \in below}
    \cup {[type |-> "LogicalExpression", op |-> "or", left |-> CommandOf("c", <<>>),
           right |-> t] : t \in below}
    \cup {[type |-> "LogicalExpression", op |-> "and", right |-> t] : t \in below}

Trees(d) == IF d = 0 THEN Leaves ELSE Grow(Trees(d - 1))

Nodes == Trees(MaxDepth) \cup {Null}

\* rules with a flag filter only, in every form of flags and flagMode
FlagRules ==
    { [name |-> "rm-plain", cmd |-> Str("rm"), reason |-> "no flags"],
      [name |-> "rm-empty", cmd |-> Str("rm"), flags |-> Str(""), reason |-> "empty flags"] }
    \cup {[name |-> "rm-flags", cmd |-> Str("rm"), flags |-> f, reason |-> "flags"] :
              f \in {Str("f"), Arr(<<"f", "r">>), Arr(<<>>)}}
    \cup {[name |-> "rm-flags", cmd |-> Str("rm"), flags |-> f, flagMode |-> m,
           reason |-> "flags"] :
              f \in {Str("f"), Str(""), Arr(<<"f", "r">>), Arr(<<>>)}, m \in {"all", "any"}}

\* the structured commands of the rm nodes
CmdInfos ==
    {parseCommand(CommandOf(n, s)) :
         n \in {"rm", "mv"},
         s \in UNION {[1..k -> {"-f", "-r", "-rf", "--force", "x"}] : k \in 0..MaxSuffix}}

Called(fn, args, completion) == [fn |-> fn, args |-> args, completion |-> completion]

\* normalizePath(p) is called directly
CallNormalizePath ==
    /\ IsNull(direct)
    /\ \E p \in Paths :
           direct' = Called("normalizePath", <<p>>, Normal(normalizePath(p)))
    /\ UNCHANGED <<elsewhere, rules, rulesRegexCache, parserRegexCache, pc, command, ast,
                   pipeRule, commands, idx, checked, calls, result>>

\* parseCommand(node) is called directly
CallParseCommand ==
    /\ IsNull(direct)
    /\ \E node \in CommandNodes :
           direct' = Called("parseCommand", <<node>>, Normal(parseCommand(node)))
    /\ UNCHANGED <<elsewhere, rules, rulesRegexCache, parserRegexCache, pc, command, ast,
                   pipeRule, commands, idx, checked, calls, result>>

\* extractCommands(node) is called directly
CallExtractCommands ==
    /\ IsNull(direct)
    /\ \E node \in Nodes :
           direct' = Called("extractCommands", <<node>>, Normal(extractCommands(node)))
    /\ UNCHANGED <<elsewhere, rules, rulesRegexCache, parserRegexCache, pc, command, ast,
                   pipeRule, commands, idx, checked, calls, result>>

\* matchesBlockRule(cmdInfo, rule) is called directly
CallMatchesBlockRule ==
    /\ IsNull(direct)
    /\ \E cmdInfo \in CmdInfos, rule \in FlagRules :
           direct' = Called("matchesBlockRule", <<cmdInfo, rule>>,
                            matchesBlockRule(cmdInfo, rule, rulesRegexCache))
    /\ UNCHANGED <<elsewhere, rules, rulesRegexCache, parserRegexCache, pc, command, ast,
                   pipeRule, commands, idx, checked, calls, result>>

\* allow rules in every form of cmd and pathPatterns, and with the fields
\* that only block rules use
AllowRuleForms ==
    { [name |-> "any", reason |-> "no filter"],
      [name |-> "rm-any", cmd |-> Str("rm"), reason |-> "cmd only"],
      [name |-> "empty-cmd", cmd |-> Str(""), reason |-> "empty cmd"],
      [name |-> "no-cmd", cmd |-> Arr(<<>>), reason |-> "empty list"],
      [name |-> "tmp-any", pathPatterns |-> Str("^/tmp/"), reason |-> "paths only"],
      [name |-> "rm-empty", cmd |-> Str("rm"), pathPatterns |-> Str(""), reason |-> "empty pattern"],
      [name |-> "rm-tmp", cmd |-> Arr(<<"rm", "mv">>),
       pathPatterns |-> Arr(<<"^/home/", "^/tmp/">>), reason |-> "two patterns"],
      [name |-> "rm-safe", cmd |-> Str("rm"), pathPatterns |-> Str("^/tmp/"),
       flags |-> Str("i"), subcommand |-> "push", argPatterns |-> Str("zzz"),
       reason |-> "with the fields of block rules"] }

\* the structured commands of rm and cp nodes that name paths
PathCmdInfos ==
    {parseCommand(CommandOf(n, s)) :
         n \in {"rm", "cp"},
         s \in UNION {[1..k -> {"-rf", "/tmp/foo", "/", "/tmp/../etc", "x"}] : k \in 0..MaxSuffix}}
        \cup {parseCommand(CommandOf("rm", <<"-rf", "/tmp/foo", "/">>))}

\* matchesAllowRule(cmdInfo, rule) is called directly, with m its outcome
matchesAllowRuleCalled(cmdInfo, rule, m) ==
    /\ direct' = Called("matchesAllowRule", <<cmdInfo, rule>>, Normal(m.value))
    /\ parserRegexCache' = m.cache

CallMatchesAllowRule ==
    /\ IsNull(direct)
    /\ \E cmdInfo \in PathCmdInfos, rule \in AllowRuleForms :
           matchesAllowRuleCalled(cmdInfo, rule, matchesAllowRule(cmdInfo, rule, parserRegexCache))
    /\ UNCHANGED <<elsewhere, rules, rulesRegexCache, pc, command, ast,
                   pipeRule, commands, idx, checked, calls, result>>

\* the patterns the lookups are asked for
Patterns == {"^/tmp/", "^/home/", "\\.env"}

\* getRegex(pattern) of rules.ts is called
CallRulesGetRegex ==
    /\ IsNull(direct)
    /\ \E pattern \in Patterns :
           direct' = Called("getRegex", <<"rules.ts", pattern, rulesRegexCache>>,
                            rulesGetRegex(pattern, rulesRegexCache))
    /\ UNCHANGED <<elsewhere, rules, rulesRegexCache, parserRegexCache, pc, command, ast,
                   pipeRule, commands, idx, checked, calls, result>>

\* getRegex(pattern) of parser.ts is called
CallParserGetRegex ==
    /\ IsNull(direct)
    /\ \E pattern \in Patterns :
           /\ direct' = Called("getRegex", <<"parser.ts", pattern, parserRegexCache>>,
                               Normal(parserGetRegex(pattern, parserRegexCache).regex))
           /\ parserRegexCache' = parserGetRegex(pattern, parserRegexCache).cache
    /\ UNCHANGED <<elsewhere, rules, rulesRegexCache, pc, command, ast,
                   pipeRule, commands, idx, checked, calls, result>>

\* the caller has the completion of the direct call
DirectReturn ==
    /\ ~IsNull(direct)
    /\ direct' = Null
    /\ UNCHANGED <<elsewhere, rules, rulesRegexCache, parserRegexCache, pc, command, ast,
                   pipeRule, commands, idx, checked, calls, result>>

\* the modules are loaded and nothing has been called
UnitInit == Init /\ rules = [block |-> <<RmRf>>, allow |-> <<>>]

\* a test calls one function and waits for its completion
UnitNext ==
    \/ CallNormalizePath
    \/ CallParseCommand
    \/ CallExtractCommands
    \/ CallMatchesBlockRule
    \/ CallMatchesAllowRule
    \/ CallRulesGetRegex
    \/ CallParserGetRegex
    \/ DirectReturn

UnitSpec == UnitInit /\ [][UnitNext]_vars


(***************************************************************************)
(* commands/pre.ts: runPre, the entry point of the PreToolUse hook         *)
(***************************************************************************)
EXIT == [ALLOW |-> 0, BLOCK |-> 2]

\* lines 60-92: checkBashCommand in a process that has compiled no pattern
checkBashCommand(c, ruleSet) ==
    IF isFastPathSafe(c) THEN NotBlocked ELSE fullPath(c, ruleSet, <<>>, <<>>)

\* what the hook process can find on its standard input: nothing readable,
\* text that is not JSON, and the JSON values null, {}, {tool_input: {}},
\* {tool_input: {command: ""}} and {tool_input: {command: c}}
HookInputs ==
    { Throw("EAGAIN: resource temporarily unavailable, read"),
      Throw("Unexpected end of JSON input"),
      Normal(Null),
      Normal([tool_name |-> "Bash"]),
      Normal([tool_name |-> "Bash", tool_input |-> [description |-> "d"]]),
      Normal([tool_name |-> "Bash", tool_input |-> [command |-> ""]]) }
    \cup {Normal([tool_name |-> "Bash", tool_input |-> [command |-> c]]) : c \in Commands}

\* data.tool_input?.command is truthy, for data that is not null
hasCommand(d) ==
    /\ "tool_input" \in DOMAIN d
    /\ "command" \in DOMAIN d.tool_input
    /\ d.tool_input.command # ""

\* process.exit(code) after the lines have gone to stderr
Exit(code, lines) ==
    /\ hookPc' = "exited"
    /\ exitCode' = code
    /\ stderr' = stderr \o lines

\* a catch clause that lets the error end the process
runPreCatchUncaught(message) ==
    Exit(1, <<"Uncaught " \o message>>)

\* lines 117-121: the catch clause of runPre
runPreCatch(message) ==
    Exit(EXIT.ALLOW, <<"sherpa pre error: " \o message>>)

\* line 99: readHookInput(), inside the try
RunPreRead ==
    /\ hookPc = "start"
    /\ IF IsThrow(stdin)
       THEN runPreCatch(stdin.value) /\ data' = data
       ELSE hookPc' = "read" /\ data' = stdin.value /\ UNCHANGED <<stderr, exitCode>>
    /\ UNCHANGED <<guardVars, postVars, daemonVars, llmVars, stdin>>

\* lines 108-116, with r the completion of checkBashCommand(c)
runPreVerdict(c, r) ==
    IF IsThrow(r) THEN runPreCatch(r.value)
    ELSE IF BlockedWithRule(r.value)
    THEN Exit(EXIT.BLOCK, <<"BLOCKED by sherpa",
                           "  Rule: " \o r.value.rule.name,
                           "  Reason: " \o r.value.rule.reason,
                           "  Command: " \o c>>)
    ELSE Exit(EXIT.ALLOW, <<>>)

\* lines 100-106, with d the data read
runPreCommand(d) ==
    IF ~hasCommand(d) THEN Exit(EXIT.ALLOW, <<>>)
    ELSE runPreVerdict(d.tool_input.command, checkBashCommand(d.tool_input.command, rules))

\* lines 100-121: the rest of the try block and the catch clause
RunPreCheck ==
    /\ hookPc = "read"
    /\ IF IsNull(data)
       THEN runPreCatch("Cannot read properties of null (reading 'tool_input')")
       ELSE runPreCommand(data)
    /\ UNCHANGED <<guardVars, postVars, daemonVars, llmVars, stdin, data>>

\* the hook process starts: the rules are loaded and the input is on stdin
HookInit ==
    /\ GuardInit
    /\ stdin \in HookInputs
    /\ hookPc = "start"
    /\ data = Null
    /\ stderr = <<>>
    /\ exitCode = Null
    /\ PostIdle
    /\ DaemonIdle
    /\ LlmIdle

HookNext ==
    \/ RunPreRead
    \/ RunPreCheck

HookSpec == HookInit /\ [][HookNext]_vars

(***************************************************************************)
(* commands/post.ts: offloadOutput and cleanupScratch.  The tokenizer      *)
(* (tiktoken) and the digest (md5) are libraries outside the repository:   *)
(* the model counts one token for each word and each line break, and uses  *)
(* a checksum of the content for the digest.                               *)
(***************************************************************************)
RECURSIVE CountFrom(_, _)
\* the tokens of s; inWord says that the character before was part of a word
CountFrom(s, inWord) ==
    IF s = "" THEN 0
    ELSE IF Head(s) = "\n" THEN 1 + CountFrom(Tail(s), FALSE)
    ELSE IF Head(s) = " " THEN CountFrom(Tail(s), FALSE)
    ELSE (IF inWord THEN 0 ELSE 1) + CountFrom(Tail(s), TRUE)

countTokens(text) == CountFrom(text, FALSE)

HexDigits == <<"0", "1", "2", "3", "4", "5", "6", "7", "8", "9",
               "a", "b", "c", "d", "e", "f">>

\* createHash('md5').update(content).digest('hex').slice(0, 8)
hashOutput(content) ==
    "000000" \o HexDigits[(((Len(content) * 31 + countTokens(content) * 7) % 256) \div 16) + 1]
             \o HexDigits[((Len(content) * 31 + countTokens(content) * 7) % 16) + 1]

\* the configuration of the tests, with the token limits scaled to the
\* outputs of the model
testConfig ==
    [maxTokens |-> 3, previewTokens |-> 2, scratchDir |-> ".claude/scratch",
     maxAgeMinutes |-> 60, maxScratchSizeMB |-> 3]

cwd == "/repo"

\* path.join of a directory and a name
join(dir, name) == dir \o "/" \o name

\* the name of a file of the directory dir
Basename(dir, path) == Slice(path, Len(dir) + 1)

\* the directory without the file at path
Unlinked(dir, path) == [p \in DOMAIN dir \ {path} |-> dir[p]]

\* the directory with content written to the file at path at time now
Written(dir, path, content, now) ==
    [p \in DOMAIN dir \cup {path} |->
        IF p = path THEN [size |-> Len(content), mtime |-> now, content |-> content]
        ELSE dir[p]]

RECURSIVE collectInfos(_, _, _)
\* lines 51-66: the FileInfo of each out_ file, in the order readdirSync gave
collectInfos(files, scratchDir, dir) ==
    IF files = <<>> THEN <<>>
    ELSE (IF StartsWith(Head(files), "out_")
          THEN <<[path |-> join(scratchDir, Head(files)),
                  size |-> dir[join(scratchDir, Head(files))].size,
                  mtime |-> dir[join(scratchDir, Head(files))].mtime]>>
          ELSE <<>>)
         \o collectInfos(Tail(files), scratchDir, dir)

RECURSIVE SumSizes(_)
SumSizes(infos) == IF infos = <<>> THEN 0 ELSE Head(infos).size + SumSizes(Tail(infos))

\* try { unlinkSync(info.path); totalSize -= info.size } catch {}
tryUnlink(info, st, fails) ==
    IF info.path \in fails THEN st
    ELSE [dir |-> Unlinked(st.dir, info.path), totalSize |-> st.totalSize - info.size]

RECURSIVE ageLoop(_, _, _, _, _)
\* lines 69-78: delete the files older than maxAge
ageLoop(infos, st, now, maxAge, fails) ==
    IF infos = <<>> THEN st
    ELSE ageLoop(Tail(infos),
                 IF now - Head(infos).mtime > maxAge
                 THEN tryUnlink(Head(infos), st, fails) ELSE st,
                 now, maxAge, fails)

\* x put behind the elements of the sorted list that are not newer
RECURSIVE InsertByMtime(_, _)
InsertByMtime(x, sorted) ==
    IF sorted = <<>> THEN <<x>>
    ELSE IF Head(sorted).mtime <= x.mtime
    THEN <<Head(sorted)>> \o InsertByMtime(x, Tail(sorted))
    ELSE <<x>> \o sorted

\* a sort that puts the newest first
RECURSIVE sortNewestFirst(_)
sortNewestFirst(infos) ==
    IF infos = <<>> THEN <<>>
    ELSE IF \A k \in 1..Len(infos) : infos[k].mtime <= Head(infos).mtime
    THEN <<Head(infos)>> \o sortNewestFirst(Tail(infos))
    ELSE sortNewestFirst(Tail(infos) \o <<Head(infos)>>)

\* line 84: .sort((a, b) => a.mtime - b.mtime), a stable sort
RECURSIVE sortOldestFirst(_)
sortOldestFirst(infos) ==
    IF infos = <<>> THEN <<>>
    ELSE InsertByMtime(infos[Len(infos)], sortOldestFirst(Pop(infos)))

\* line 83: .filter(f => existsSync(f.path))
RECURSIVE stillThere(_, _)
stillThere(infos, dir) ==
    IF infos = <<>> THEN <<>>
    ELSE (IF Head(infos).path \in DOMAIN dir THEN <<Head(infos)>> ELSE <<>>)
         \o stillThere(Tail(infos), dir)

RECURSIVE sizeLoop(_, _, _, _)
\* lines 86-94: delete from the front until the total is within the limit
sizeLoop(remaining, st, maxBytes, fails) ==
    IF remaining = <<>> \/ st.totalSize <= maxBytes THEN st
    ELSE sizeLoop(Tail(remaining), tryUnlink(Head(remaining), st, fails), maxBytes, fails)

\* lines 81-95, with st the state after the age phase
sizePhase(infos, st, maxBytes, fails) ==
    IF st.totalSize > maxBytes
    THEN sizeLoop(sortOldestFirst(stillThere(infos, st.dir)), st, maxBytes, fails)
    ELSE st

\* lines 48-95, with infos the FileInfo list
cleanupInfos(infos, dir, now, maxAge, maxBytes, fails) ==
    sizePhase(infos,
              ageLoop(infos, [dir |-> dir, totalSize |-> SumSizes(infos)], now, maxAge, fails),
              maxBytes, fails)

\* cleanupScratch(scratchDir, maxAgeMinutes, maxSizeMB): the directory it
\* leaves, with files the names readdirSync returned and fails the paths
\* unlinkSync throws on
cleanupScratch(scratchDir, maxAgeMinutes, maxSizeMB, dir, files, now, fails) ==
    cleanupInfos(collectInfos(files, scratchDir, dir), dir, now,
                 maxAgeMinutes * 60 * 1000, maxSizeMB * 1024 * 1024, fails).dir

RECURSIVE previewLoop(_, _, _, _)
\* lines 138-144: take lines from the end while the count is under the limit
previewLoop(lines, i, st, limit) ==
    IF i >= 1 /\ st.previewTokens < limit
    THEN previewLoop(lines, i - 1,
                     [previewLines |-> <<lines[i]>> \o st.previewLines,
                      previewTokens |-> st.previewTokens + countTokens(lines[i])],
                     limit)
    ELSE st

\* (output.length / 1024).toFixed(1), from the tenths of a KB rounded
toFixed1(tenths) == ToString(tenths \div 10) \o "." \o ToString(tenths % 10)

\* lines 148-155: the pointer message; the box-drawing characters of the
\* source are written + and |
pointerMessage(output, lines, tokens, filepath, previewLines) ==
    Join(<<"+- Output offloaded (" \o ToString(Len(lines)) \o " lines, "
               \o toFixed1((Len(output) * 10 + 512) \div 1024) \o "KB, ~"
               \o ToString(tokens) \o " tokens)",
           "| File: " \o filepath,
           "| Hint: grep <pattern> " \o filepath,
           "+- Last " \o ToString(Len(previewLines)) \o " lines:",
           Join(previewLines, "\n")>>, "\n")

\* line 133: the name of the scratch file
scratchName(output, code) ==
    "out_" \o hashOutput(output) \o "_exit" \o ToString(code) \o ".txt"

MaxLines == 2

\* the lines an output is made of
OutputLines == {"a", "b c d e"}

\* the outputs of one to MaxLines lines, and two that end with a line break
Outputs ==
    {Join(ls, "\n") : ls \in UNION {[1..n -> OutputLines] : n \in 1..MaxLines}}
        \cup {"", "b c d e\n", "a\nb c d e\n"}

ExitCodes == {0, 1}

\* Date.now(), in milliseconds
Now == 12000000

MaxFiles == 3

scratchPath == join(cwd, testConfig.scratchDir)

\* the out_ files the directory may hold when offloadOutput is called: the
\* file of an earlier offload, and others
PoolNames ==
    <<scratchName("b c d e\na", 0), "out_b", "out_c", "out_d", "out_e">>

\* a file last modified two hours, one hour or one minute ago
Ages == [old |-> 120, edge |-> 60, new |-> 1]

PoolFile(i, age) ==
    [size |-> ((i % 2) + 1) * 1024 * 1024, mtime |-> Now - Ages[age] * 60 * 1000,
     content |-> "earlier"]

\* the directory with the pool files the assignment gives an age, and with a
\* file that is no offload when notes says so
DirOf(a, notes) ==
    [p \in {join(scratchPath, PoolNames[i]) : i \in {k \in 1..MaxFiles : a[k] # "none"}}
           \cup (IF notes THEN {join(scratchPath, "notes.txt")} ELSE {}) |->
        IF p = join(scratchPath, "notes.txt")
        THEN [size |-> 5 * 1024 * 1024, mtime |-> Now - Ages.old * 60 * 1000,
              content |-> "notes"]
        ELSE PoolFile(CHOOSE i \in 1..MaxFiles : p = join(scratchPath, PoolNames[i]),
                      a[CHOOSE i \in 1..MaxFiles : p = join(scratchPath, PoolNames[i])])]

ScratchDirs ==
    {DirOf(a, notes) : a \in [1..MaxFiles -> {"none", "old", "edge", "new"}],
                       notes \in BOOLEAN}

\* the names of the directory in an order readdirSync can give: the out_
\* files in any order, then the others
ReaddirOrders(dir) ==
    {s \o <<"notes.txt">> :
        s \in {t \in [1..Cardinality({p \in DOMAIN dir : StartsWith(Basename(scratchPath, p), "out_")})
                        -> {Basename(scratchPath, p) : p \in DOMAIN dir}] :
                  /\ \A i \in DOMAIN t : StartsWith(t[i], "out_")
                  /\ \A i, j \in DOMAIN t : i # j => t[i] # t[j]}}

\* the locals of a call of offloadOutput that has just counted the tokens
offloadLocals(output, code, config, dir) ==
    [pc |-> IF countTokens(output) <= config.maxTokens THEN "returned" ELSE "cleanup",
     output |-> output, exitCode |-> code, config |-> config,
     tokens |-> countTokens(output), lines |-> Split(output, "\n"),
     before |-> dir, cleaned |-> Null,
     filepath |-> "", previewLines |-> <<>>, previewTokens |-> 0,
     completion |-> IF countTokens(output) <= config.maxTokens
                    THEN Normal([modified |-> FALSE, result |-> output])
                    ELSE Null]

\* lines 116-126: offloadOutput(output, code, config) is called; small
\* output passes through, for other output the scratch directory is made
OffloadOutput ==
    /\ IsNull(post)
    /\ \E output \in Outputs, code \in ExitCodes :
           post' = offloadLocals(output, code, testConfig, scratch)
    /\ UNCHANGED <<guardVars, hookVars, daemonVars, llmVars, scratch, locked>>

\* line 129: cleanupScratch runs on the directory
CleanupScratch ==
    /\ ~IsNull(post)
    /\ post.pc = "cleanup"
    /\ \E files \in ReaddirOrders(scratch) :
           /\ scratch' = cleanupScratch(scratchPath, post.config.maxAgeMinutes,
                                        post.config.maxScratchSizeMB, scratch, files,
                                        Now, locked)
           /\ post' = [post EXCEPT !.pc = "write", !.cleaned = scratch']
    /\ UNCHANGED <<guardVars, hookVars, daemonVars, llmVars, locked>>

\* lines 138-157, with pv the outcome of the preview loop
offloadReturn(locals, filepath, pv) ==
    [locals EXCEPT
        !.pc = "returned", !.filepath = filepath,
        !.previewLines = pv.previewLines, !.previewTokens = pv.previewTokens,
        !.completion =
            Normal([modified |-> TRUE,
                    result |-> pointerMessage(locals.output, locals.lines, locals.tokens,
                                              filepath, pv.previewLines)])]

\* an offload that returns without having written the file
writeAndReturnNothingWritten(locals, filepath, dir, written) ==
    [dir |-> dir,
     locals |-> offloadReturn(locals, filepath,
                    previewLoop(locals.lines, Len(locals.lines),
                                [previewLines |-> <<>>, previewTokens |-> 0],
                                locals.config.previewTokens))]

\* lines 132-157, with written saying that writeFileSync did not throw
writeAndReturn(locals, filepath, dir, written) ==
    IF written
    THEN [dir |-> Written(dir, filepath, locals.output, Now),
          locals |-> offloadReturn(locals, filepath,
                         previewLoop(locals.lines, Len(locals.lines),
                                     [previewLines |-> <<>>, previewTokens |-> 0],
                                     locals.config.previewTokens))]
    ELSE [dir |-> dir,
          locals |-> [locals EXCEPT !.pc = "returned", !.filepath = filepath,
                                    !.completion = Throw("ENOSPC: no space left on device, write")]]

\* lines 132-157: the file is written, the preview and the message are made
WriteScratch ==
    /\ ~IsNull(post)
    /\ post.pc = "write"
    /\ \E written \in BOOLEAN :
           /\ scratch' = writeAndReturn(post, join(scratchPath, scratchName(post.output, post.exitCode)),
                                        scratch, written).dir
           /\ post' = writeAndReturn(post, join(scratchPath, scratchName(post.output, post.exitCode)),
                                     scratch, written).locals
    /\ UNCHANGED <<guardVars, hookVars, daemonVars, llmVars, locked>>

\* offloadOutput is about to be called on some directory
PostInit ==
    /\ GuardInit
    /\ rules = [block |-> <<RmRf>>, allow |-> <<>>]
    /\ HookIdle
    /\ scratch \in ScratchDirs
    /\ locked \in {{}, {join(scratchPath, "out_b")}}
    /\ post = Null
    /\ DaemonIdle
    /\ LlmIdle

PostNext ==
    \/ OffloadOutput
    \/ CleanupScratch
    \/ WriteScratch

PostSpec == PostInit /\ [][PostNext]_vars

\* ---------------------------------------------------------------------------
\* packages/guard/src/daemon.ts: handleConnection
\* ---------------------------------------------------------------------------

\* line 172: the largest buffer the handler goes on to parse
BufferLimit == 10 * 1024 * 1024

\* the connections the daemon accepts in one behaviour
MaxConns == 2

\* a chunk, and the buffer: its text, and the number of characters of white
\* space between the tokens of the text, which JSON.parse skips
Chunk(text, pad) == [text |-> text, pad |-> pad]

EmptyBuffer == Chunk("", 0)

\* buffer += chunk.toString()
Concat(buffer, chunk) == Chunk(buffer.text \o chunk.text, buffer.pad + chunk.pad)

\* buffer.length
BufLen(buffer) == Len(buffer.text) + buffer.pad

\* six MiB of white space
Padding == Chunk("", 6 * 1024 * 1024)

\* the texts of requests, each as the tokens before and after a place where a
\* client may split it
PreHead == "{\"type\":\"pre\","
PreRmTail == "\"data\":{\"command\":\"rm -rf /\"}}"
PreLsTail == "\"data\":{\"command\":\"ls\"}}"
PreChmodTail == "\"data\":{\"command\":\"chmod -R 777 /var/www\"}}"
PreEmptyTail == "\"data\":{}}"
PreNoData == "{\"type\":\"pre\"}"
PostHead == "{\"type\":\"post\",\"data\":"
PostSmallTail == "{\"stdout\":\"a\",\"stderr\":\"\",\"exit_code\":0}}"
PostLargeTail == "{\"stdout\":\"b c d e\\na\",\"stderr\":\"a\",\"exit_code\":1}}"
StatusText == "{\"type\":\"status\"}"
NullText == "null"
NotJSON == "{type: pre}"

PreData(c) == [type |-> "pre", data |-> [command |-> c]]

PostData(out, err, code) ==
    [type |-> "post", data |-> [stdout |-> out, stderr |-> err, exit_code |-> code]]

\* the JSON texts of the requests with the values they stand for
JSONTexts ==
    << [text |-> PreHead \o PreRmTail, value |-> PreData("rm -rf /")],
       [text |-> PreHead \o PreLsTail, value |-> PreData("ls")],
       [text |-> PreHead \o PreChmodTail, value |-> PreData("chmod -R 777 /var/www")],
       [text |-> PreHead \o PreEmptyTail, value |-> [type |-> "pre", data |-> [none |-> TRUE]]],
       [text |-> PreNoData, value |-> [type |-> "pre"]],
       [text |-> PostHead \o PostSmallTail, value |-> PostData("a", "", 0)],
       [text |-> PostHead \o PostLargeTail, value |-> PostData("b c d e\na", "a", 1)],
       [text |-> StatusText, value |-> [type |-> "status"]],
       [text |-> NullText, value |-> Null] >>

\* the position of a text among the JSON texts, or 0
RECURSIVE TextIndex(_, _)
TextIndex(text, i) ==
    IF i > Len(JSONTexts) THEN 0
    ELSE IF JSONTexts[i].text = text THEN i
    ELSE TextIndex(text, i + 1)

\* text is the beginning of a JSON text, cut between two tokens
IsCut(text) ==
    \/ text = ""
    \/ \E i \in 1..Len(JSONTexts) :
           /\ Len(text) < Len(JSONTexts[i].text)
           /\ StartsWith(JSONTexts[i].text, text)

\* JSON.parse(buffer): the value, or a SyntaxError with its message
JSONParse(text) ==
    IF TextIndex(text, 1) > 0 THEN Normal(JSONTexts[TextIndex(text, 1)].value)
    ELSE IF IsCut(text) THEN Throw("Unexpected end of JSON input")
    ELSE Throw("Unexpected token in JSON")

\* what the handler writes for its own errors
TooLarge == [error |-> "Request too large"]
UnknownType == [error |-> "Unknown request type"]
InvalidJSON == [error |-> "Invalid JSON"]

\* the scripts of a client: the chunks it sends, in order
Scripts ==
    {<<Chunk(JSONTexts[i].text, 0)>> : i \in 1..Len(JSONTexts)}
    \cup { <<Chunk(NotJSON, 0)>>,
           <<Chunk(PreHead, 0), Chunk(PreRmTail, 0)>>,
           <<Chunk(PostHead, 0), Chunk(PostLargeTail, 0)>>,
           <<Chunk(PreHead, 0), Padding, Chunk(PreRmTail, 0)>>,
           <<Padding, Chunk(PreHead \o PreRmTail, 0)>>,
           <<Padding, Padding, Chunk(PreHead \o PreRmTail, 0)>>,
           <<Chunk(PreHead, 0), Padding, Padding>>,
           <<Chunk(PreHead \o PreLsTail, 0), Chunk(PreHead \o PreRmTail, 0)>> }

\* a connection: what its client has still to send and has sent, the buffer
\* of the handler, what the socket has carried to the client, whether the daemon
\* has ended it, and the calls of the core made for it, each with the length
\* of the buffer that held the request
NewConn(script) ==
    [script |-> script, sent |-> EmptyBuffer, buffer |-> EmptyBuffer, written |-> <<>>, ended |-> FALSE,
     invoked |-> <<>>]

\* socket.write(JSON.stringify(response)): after socket.end() the write
\* fails with an 'error' event and nothing is sent
Write(conn, response) ==
    IF conn.ended THEN conn ELSE [conn EXCEPT !.written = Append(@, response)]

\* socket.end()
End(conn) == [conn EXCEPT !.ended = TRUE]

\* the parser cache after the loop of checkBashCommand
RECURSIVE loopCache(_, _, _, _)
loopCacheTurn(r, cmds, ruleSet, rulesCache) ==
    IF IsThrow(r.completion) THEN r.cache
    ELSE IF BlockedWithRule(r.completion.value) THEN r.cache
    ELSE loopCache(Tail(cmds), ruleSet, rulesCache, r.cache)

loopCache(cmds, ruleSet, rulesCache, parserCache) ==
    IF cmds = <<>> THEN parserCache
    ELSE loopCacheTurn(checkCommand(Head(cmds), ruleSet, rulesCache, parserCache),
                       cmds, ruleSet, rulesCache)

\* the parser cache after checkBashCommand(c)
cacheAfterCheck(c, ruleSet, rulesCache, parserCache) ==
    IF isFastPathSafe(c) THEN parserCache
    ELSE IF IsThrow(parse(c)) THEN parserCache
    ELSE IF ~IsNull(checkPipeline(parse(c).value, ruleSet)) THEN parserCache
    ELSE loopCache(extractCommands(parse(c).value), ruleSet, rulesCache, parserCache)

\* checkBashCommand(c) in the daemon, which keeps its caches between requests
daemonCheck(c, ruleSet, rulesCache, parserCache) ==
    IF isFastPathSafe(c) THEN NotBlocked ELSE fullPath(c, ruleSet, rulesCache, parserCache)

\* the outcome of handling a request: the response or the error, the cache
\* and the directory afterwards, and the functions of the core it called
Handled(completion, cache, dir, called) ==
    [completion |-> completion, cache |-> cache, dir |-> dir, called |-> called]

\* lines 186-188
handlePre(request, ruleSet, rulesCache, parserCache, dir) ==
    IF "data" \notin DOMAIN request
    THEN Handled(Throw("TypeError: Cannot destructure property 'command' of 'request.data' as it is undefined."),
                 parserCache, dir, <<>>)
    ELSE IF "command" \notin DOMAIN request.data
    THEN Handled(Throw("TypeError: Cannot read properties of undefined (reading 'trim')"),
                 parserCache, dir, <<"checkBashCommand">>)
    ELSE Handled(daemonCheck(request.data.command, ruleSet, rulesCache, parserCache),
                 cacheAfterCheck(request.data.command, ruleSet, rulesCache, parserCache),
                 dir, <<"checkBashCommand">>)

\* offloadOutput(output, code, config) as one call: the completion and the
\* directory afterwards
offloadCallLarge(w) == [completion |-> w.locals.completion, dir |-> w.dir]

offloadCall(output, code, config, dir, files, fails, written) ==
    IF countTokens(output) <= config.maxTokens
    THEN [completion |-> Normal([modified |-> FALSE, result |-> output]), dir |-> dir]
    ELSE offloadCallLarge(
             writeAndReturn(offloadLocals(output, code, config, dir),
                            join(scratchPath, scratchName(output, code)),
                            cleanupScratch(scratchPath, config.maxAgeMinutes,
                                           config.maxScratchSizeMB, dir, files, Now, fails),
                            written))

\* lines 192-197, with first the outcome of the offload of stdout
handlePostSecond(first, second, parserCache) ==
    IF IsThrow(second.completion)
    THEN Handled(second.completion, parserCache, second.dir, <<"offloadOutput", "offloadOutput">>)
    ELSE Handled(Normal([stdout |-> first.completion.value.result,
                         stderr |-> second.completion.value.result,
                         modified |-> first.completion.value.modified
                                      \/ second.completion.value.modified]),
                 parserCache, second.dir, <<"offloadOutput", "offloadOutput">>)

\* lines 190-197, with first the outcome of the offload of stdout
handlePostFirst(request, first, parserCache, files, fails, written) ==
    IF IsThrow(first.completion)
    THEN Handled(first.completion, parserCache, first.dir, <<"offloadOutput">>)
    ELSE handlePostSecond(first,
             offloadCall(request.data.stderr, request.data.exit_code, testConfig,
                         first.dir, files, fails, written),
             parserCache)

\* lines 190-197
handlePost(request, parserCache, dir, files, fails, written) ==
    IF "data" \notin DOMAIN request
    THEN Handled(Throw("TypeError: Cannot destructure property 'stdout' of 'request.data' as it is undefined."),
                 parserCache, dir, <<>>)
    ELSE handlePostFirst(request,
             offloadCall(request.data.stdout, request.data.exit_code, testConfig,
                         dir, files, fails, written),
             parserCache, files, fails, written)

\* lines 183-200: the response to a request, or the error handling it throws
handleRequest(request, ruleSet, rulesCache, parserCache, dir, files, fails, written) ==
    IF IsNull(request)
    THEN Handled(Throw("TypeError: Cannot read properties of null (reading 'type')"),
                 parserCache, dir, <<>>)
    ELSE IF request.type = "pre"
    THEN handlePre(request, ruleSet, rulesCache, parserCache, dir)
    ELSE IF request.type = "post"
    THEN handlePost(request, parserCache, dir, files, fails, written)
    ELSE Handled(Normal(UnknownType), parserCache, dir, <<>>)

\* the calls of the core, each with the length of the buffer parsed
Invocations(called, length) ==
    [i \in 1..Len(called) |-> [fn |-> called[i], length |-> length]]

\* lines 181-203 and the catch clause for an error that is no SyntaxError:
\* the buffer is reset, the response is written when there is one
afterHandling(conn, buffer, h) ==
    IF IsThrow(h.completion)
    THEN [conn EXCEPT !.buffer = EmptyBuffer,
                      !.invoked = @ \o Invocations(h.called, BufLen(buffer))]
    ELSE End(Write([conn EXCEPT !.buffer = EmptyBuffer,
                                !.invoked = @ \o Invocations(h.called, BufLen(buffer))],
                   h.completion.value))

\* lines 204-213: the catch clause for the SyntaxError of JSON.parse
afterSyntaxError(conn, buffer, message) ==
    IF ~Includes(message, "end of JSON")
    THEN End(Write([conn EXCEPT !.buffer = EmptyBuffer], InvalidJSON))
    ELSE [conn EXCEPT !.buffer = buffer]

\* lines 172-176: the buffer is over the limit
afterTooLarge(conn, buffer) == End(Write([conn EXCEPT !.buffer = buffer], TooLarge))

\* the connection after the 'data' handler has run with the buffer grown to
\* buffer; h is the outcome of handling the request when the buffer holds one
afterData(conn, buffer, h) ==
    IF BufLen(buffer) > BufferLimit THEN afterTooLarge(conn, buffer)
    ELSE IF IsThrow(JSONParse(buffer.text))
    THEN afterSyntaxError(conn, buffer, JSONParse(buffer.text).value)
    ELSE afterHandling(conn, buffer, h)

\* the handler gets as far as handling a request
Handles(buffer) == BufLen(buffer) <= BufferLimit /\ ~IsThrow(JSONParse(buffer.text))

\* a client connects: handleConnection(socket)
Connect ==
    /\ Len(conns) < MaxConns
    /\ \E script \in Scripts : conns' = Append(conns, NewConn(script))
    /\ UNCHANGED <<guardVars, hookVars, postVars, llmVars>>

\* the 'data' handler of connection i with the outcome h of the handling
DataHandled(i, buffer, h) ==
    /\ conns' = [conns EXCEPT ![i] = afterData([conns[i] EXCEPT !.script = Tail(@),
                                                                !.sent = Concat(@, Head(conns[i].script))],
                                               buffer, h)]
    /\ parserRegexCache' = IF Handles(buffer) THEN h.cache ELSE parserRegexCache
    /\ scratch' = IF Handles(buffer) THEN h.dir ELSE scratch

\* lines 168-214: a chunk arrives on connection i
OnData(i) ==
    /\ i \in DOMAIN conns
    /\ conns[i].script # <<>>
    /\ IF Handles(Concat(conns[i].buffer, Head(conns[i].script)))
       THEN \E files \in ReaddirOrders(scratch), written \in BOOLEAN :
                DataHandled(i, Concat(conns[i].buffer, Head(conns[i].script)),
                    handleRequest(JSONParse(Concat(conns[i].buffer, Head(conns[i].script)).text).value,
                                  rules, rulesRegexCache, parserRegexCache, scratch,
                                  files, locked, written))
       ELSE DataHandled(i, Concat(conns[i].buffer, Head(conns[i].script)), Null)
    /\ UNCHANGED <<rules, rulesRegexCache, pc, command, ast, pipeRule, commands, idx,
                   checked, calls, result, direct, hookVars, locked, post, llmVars>>

\* the daemon has started with its rules loaded and no connection
DaemonInit ==
    /\ GuardInit
    /\ rules = [block |-> <<RmRf, Chmod777>>, allow |-> <<RmSafe>>]
    /\ HookIdle
    /\ PostIdle
    /\ DaemonIdle
    /\ LlmIdle

DaemonNext == Connect \/ \E i \in 1..MaxConns : OnData(i)

DaemonSpec == DaemonInit /\ [][DaemonNext]_vars

\* ---------------------------------------------------------------------------
\* packages/core/src/llm.ts: chat, with model rotation and provider fallback
\* ---------------------------------------------------------------------------

\* PROVIDERS: the environment variable and the models of each provider
PROVIDERS ==
    [cerebras |-> [envKey |-> "CEREBRAS_API_KEY",
                   models |-> <<"zai-glm-4.7", "qwen-3-235b-a22b-instruct-2507", "gpt-oss-120b">>],
     groq     |-> [envKey |-> "GROQ_API_KEY", models |-> <<"openai/gpt-oss-120b">>],
     openai   |-> [envKey |-> "OPENAI_API_KEY", models |-> <<"gpt-4o-mini">>]]

\* Object.keys(PROVIDERS), in insertion order
ProviderKeys == <<"cerebras", "groq", "openai">>

Providers == {ProviderKeys[i] : i \in 1..Len(ProviderKeys)}

\* the providers of a list that satisfy keep, in the order of the list
FilterProviders(list, keep) == SelectSeq(list, LAMBDA p : p \in keep)

\* getAvailableProviders(): the providers whose API key is set
getAvailableProviders(e) == FilterProviders(ProviderKeys, e)

\* getDefaultProvider(): the first available provider, or an error
getDefaultProvider(e) ==
    IF Len(getAvailableProviders(e)) = 0
    THEN Throw("No LLM provider configured. Set CEREBRAS_API_KEY, GROQ_API_KEY, or OPENAI_API_KEY")
    ELSE Normal(getAvailableProviders(e)[1])

Min2(a, b) == IF a < b THEN a ELSE b

\* getCurrentModel(provider): models[Math.min(idx, models.length - 1)]
getCurrentModel(mi, provider) ==
    PROVIDERS[provider].models[Min2(mi[provider], Len(PROVIDERS[provider].models) - 1) + 1]

\* rotateModel(provider) returns a model (and not null)
rotates(mi, provider) == mi[provider] + 1 < Len(PROVIDERS[provider].models)

\* rotateModel(provider): the model it returns when it returns one
rotateModel(mi, provider) == PROVIDERS[provider].models[mi[provider] + 2]

\* modelIndex after rotateModel(provider)
rotateModelIndex(mi, provider) ==
    IF rotates(mi, provider) THEN [mi EXCEPT ![provider] = mi[provider] + 1] ELSE mi

\* the errors of getClient(...).chat.completions.create(...): status is 0 when
\* the error has none
RateLimit == [status |-> 429, text |-> "Error: 429 Too Many Requests"]
ServerError == [status |-> 500, text |-> "Error: 500 Internal Server Error"]
NoKey(provider) ==
    [status |-> 0, text |-> "Error: " \o PROVIDERS[provider].envKey \o " environment variable not set"]

\* isRateLimitError(error)
isRateLimitError(error) == error.status = 429

\* the number of times a call of chat may count its turning to one provider
MaxVisits == 2

\* one more turn to a provider, counted up to MaxVisits
Visit(visits, provider) ==
    [visits EXCEPT ![provider] = Min2(visits[provider] + 1, MaxVisits)]

NoVisits == [p \in Providers |-> 0]

\* the locals of a call of chat that awaits a response
chatLocals(options, provider, model, visits) ==
    [pc |-> "request", options |-> options, currentProvider |-> provider,
     currentModel |-> model, visits |-> visits, completion |-> Null]

\* a call of chat that has returned or thrown
chatDone(l, completion) == [l EXCEPT !.pc = "done", !.completion = completion]

\* options.fallback, true by default
fallbackOf(options) == options.fallback

\* the providers chat may fall back to: the available ones but the current
fallbackProviders(e, currentProvider) ==
    FilterProviders(getAvailableProviders(e), Providers \ {currentProvider})

\* the catch block of chat after its rate-limit branch: fall back to the first
\* other available provider, or throw
chatFallback(l, e, mi, error) ==
    IF fallbackOf(l.options) /\ Len(fallbackProviders(e, l.currentProvider)) > 0
    THEN chatLocals(l.options, fallbackProviders(e, l.currentProvider)[1],
                    getCurrentModel(mi, fallbackProviders(e, l.currentProvider)[1]),
                    Visit(l.visits, fallbackProviders(e, l.currentProvider)[1]))
    ELSE chatDone(l, Throw("LLM API error (" \o l.currentProvider \o "/" \o l.currentModel
                           \o "): " \o error.text))

\* the catch block of chat
chatCatch(l, e, mi, error) ==
    IF isRateLimitError(error) /\ rotates(mi, l.currentProvider)
    THEN [l EXCEPT !.currentModel = rotateModel(mi, l.currentProvider)]
    ELSE chatFallback(l, e, mi, error)

\* modelIndex after the catch block of chat
chatCatchIndex(l, mi, error) ==
    IF isRateLimitError(error) THEN rotateModelIndex(mi, l.currentProvider) ELSE mi

\* the options of a call: a missing provider or model is the empty string
ChatOptions ==
    [provider : {""} \cup Providers, model : {"", "my-model"}, fallback : BOOLEAN]

Completions == {"", "hello"}

\* chat is awaiting the response of a provider
ChatPending == ~IsNull(llm) /\ llm.pc = "request"

\* chat has returned or thrown
ChatDone == ~IsNull(llm) /\ llm.pc = "done"

\* chat(prompt, options) up to its first request
Chat ==
    /\ IsNull(llm)
    /\ \E options \in ChatOptions :
        llm' = IF options.provider = "" /\ getDefaultProvider(env).type = "throw"
               THEN [pc |-> "done", options |-> options, currentProvider |-> "",
                     currentModel |-> "", visits |-> NoVisits,
                     completion |-> getDefaultProvider(env)]
               ELSE chatLocals(options,
                      IF options.provider = "" THEN getDefaultProvider(env).value
                      ELSE options.provider,
                      IF options.model # "" THEN options.model
                      ELSE getCurrentModel(modelIndex,
                             IF options.provider = "" THEN getDefaultProvider(env).value
                             ELSE options.provider),
                      Visit(NoVisits,
                            IF options.provider = "" THEN getDefaultProvider(env).value
                            ELSE options.provider))
    /\ UNCHANGED <<guardVars, hookVars, postVars, daemonVars, env, modelIndex>>

\* the provider answers: chat returns the content, or '' when there is none
ChatCompletes ==
    /\ ChatPending
    /\ llm.currentProvider \in env
    /\ \E content \in Completions : llm' = chatDone(llm, Normal(content))
    /\ UNCHANGED <<guardVars, hookVars, postVars, daemonVars, env, modelIndex>>

\* the provider answers 429
ChatRateLimited ==
    /\ ChatPending
    /\ llm.currentProvider \in env
    /\ llm' = chatCatch(llm, env, modelIndex, RateLimit)
    /\ modelIndex' = chatCatchIndex(llm, modelIndex, RateLimit)
    /\ UNCHANGED <<guardVars, hookVars, postVars, daemonVars, env>>

\* the request fails otherwise: getClient throws for a provider without a key,
\* or the provider answers with another error
ChatFails ==
    /\ ChatPending
    /\ llm' = chatCatch(llm, env, modelIndex,
                        IF llm.currentProvider \in env THEN ServerError
                        ELSE NoKey(llm.currentProvider))
    /\ UNCHANGED <<guardVars, hookVars, postVars, daemonVars, env, modelIndex>>

\* the caller has the result of chat
ChatReturn ==
    /\ ChatDone
    /\ llm' = Null
    /\ UNCHANGED <<guardVars, hookVars, postVars, daemonVars, env, modelIndex>>

\* a process with some of the API keys set, before its first call of chat
LlmInit ==
    /\ GuardInit
    /\ rules = [block |-> <<RmRf>>, allow |-> <<>>]
    /\ HookIdle
    /\ PostIdle
    /\ DaemonIdle
    /\ env \in SUBSET Providers
    /\ modelIndex = NoVisits
    /\ llm = Null

LlmNext == Chat \/ ChatCompletes \/ ChatRateLimited \/ ChatFails \/ ChatReturn

\* every request of chat is settled: the promise it awaits resolves or rejects
LlmSpec ==
    /\ LlmInit
    /\ [][LlmNext]_vars
    /\ WF_vars(ChatCompletes \/ ChatRateLimited \/ ChatFails)
(***************************************************************************)
(* Properties                                                              *)
(***************************************************************************)
AllowRules == OrEmpty(rules, "allow")

BlockRules == OrEmpty(rules, "block")

Range(arr) == {arr[i] : i \in 1..Len(arr)}

\* some allow rule matches the command
AnyAllowMatches(cmdInfo) ==
    \E k \in 1..Len(AllowRules) :
        matchesAllowRule(cmdInfo, AllowRules[k], parserRegexCache).value

\* some block rule that is not a pipeline rule matches the command
AnyBlockMatches(cmdInfo) ==
    \E k \in 1..Len(BlockRules) :
        /\ ~Has(BlockRules[k], "pipeTo")
        /\ matchesBlockRule(cmdInfo, BlockRules[k], rulesRegexCache) = Normal(TRUE)

\* C1: every call of checkBashCommand ends by returning {blocked: false} or
\* {blocked: true, rule: {name, reason}}; it never ends by throwing.
C1_AlwaysReturnsVerdict ==
    pc = "returned" =>
        /\ ~IsThrow(result)
        /\ result.value.blocked \in BOOLEAN
        /\ result.value.blocked => DOMAIN result.value.rule = {"name", "reason"}

\* C2: whenever isFastPathSafe(command) holds, the evaluation without the
\* fast path returns not-blocked too, so the fast path returned what the
\* full path would have.
C2_FastPathKeepsVerdict ==
    (pc = "returned" /\ isFastPathSafe(command)) =>
        /\ result = NotBlocked
        /\ fullPath(command, rules, rulesRegexCache, parserRegexCache) = NotBlocked

\* C3: a command that some allow rule matches is returned not-blocked by
\* checkCommand, whatever block rules match it as well.
C3_AllowOverridesBlock ==
    \A i \in 1..Len(checked) :
        AnyAllowMatches(checked[i].cmdInfo) =>
            /\ ~IsThrow(checked[i].completion)
            /\ ~checked[i].completion.value.blocked
            /\ "rule" \notin DOMAIN checked[i].completion.value

C3_Witness ==
    \E i \in 1..Len(checked) :
        /\ AnyAllowMatches(checked[i].cmdInfo)
        /\ AnyBlockMatches(checked[i].cmdInfo)
        /\ checked[i].cmdInfo.paths = <<"/tmp/foo">>
        /\ checked[i].completion = Normal([blocked |-> FALSE, reason |-> "Allowed: rm-safe"])

\* the commands extractCommands finds in a parsed text
ExtractedFrom(parsed) == IF IsThrow(parsed) THEN <<>> ELSE extractCommands(parsed.value)

\* the text joins commands with &&, ||, ;, a pipe or a subshell
JoinsCommands(text) ==
    \/ Includes(text, "&&") \/ Includes(text, "||") \/ Includes(text, ";")
    \/ Includes(text, "|") \/ Includes(text, "(")

\* some command of the list matches no allow rule and matches a block rule
SomeCommandToBlock(cmds) ==
    \E i \in 1..Len(cmds) : ~AnyAllowMatches(cmds[i]) /\ AnyBlockMatches(cmds[i])

\* C4: when the input joins several commands and one of the extracted
\* commands matches no allow rule and matches a non-pipeline block rule,
\* checkBashCommand returns blocked, whatever the other commands are.
C4_BlockedByAnyCommand ==
    (/\ pc = "returned"
     /\ JoinsCommands(command)
     /\ Len(ExtractedFrom(parse(command))) >= 2
     /\ SomeCommandToBlock(ExtractedFrom(parse(command))))
        => (~IsThrow(result) /\ result.value.blocked)

\* C5: when the parser throws on the command text, checkBashCommand returns
\* {blocked: false} without a rule, and has run neither checkPipeline nor
\* extractCommands nor checkCommand.
C5_ParseFailureFailsOpen ==
    (pc = "returned" /\ ArrIncludes(calls, "parse") /\ IsThrow(parse(command))) =>
        /\ result = NotBlocked
        /\ calls = <<"isFastPathSafe", "parse">>
        /\ checked = <<>>
        /\ IsNull(pipeRule)
        /\ IsNull(ast)

C5_Witness ==
    /\ pc = "returned"
    /\ command = "this is not ( valid bash"
    /\ calls = <<"isFastPathSafe", "parse">>
    /\ result = NotBlocked

\* the name of a pipeline stage, "" for a stage without one
StageName(stage) == IF HasNameText(stage) THEN stage.name.text ELSE ""

\* some stage named in the rule's pipeTo comes after a stage named in its cmd
SourceBeforeTarget(rule, stages) ==
    \E j \in 1..Len(stages) :
        /\ StageName(stages[j]) \in Range(AsArray(rule.pipeTo))
        /\ \E i \in 1..(j - 1) : StageName(stages[i]) \in Range(PipeSources(rule))

\* C6: for a pipeTo rule and a top-level pipeline, checkPipeline matches iff
\* a stage named in the rule's cmd is followed, adjacent or not, by a stage
\* named in its pipeTo.
C6_PipelineSourceThenTarget ==
    ~IsNull(ast) =>
        \A k \in 1..Len(ast.commands) :
            ast.commands[k].type = "Pipeline" =>
                \A r \in 1..Len(BlockRules) :
                    Has(BlockRules[r], "pipeTo") =>
                        (~IsNull(checkPipeline([type |-> "Script",
                                                commands |-> <<ast.commands[k]>>],
                                               [block |-> <<BlockRules[r]>>]))
                         <=> SourceBeforeTarget(BlockRules[r], ast.commands[k].commands))

C6_Witness ==
    /\ pc = "returned"
    /\ command = "curl x | tee log | bash"
    /\ pipeRule = CurlBash
    /\ result = Blocked(CurlBash)

\* the form of a path an allow rule is to judge
Authoritative(path) ==
    IF Includes(path, "..") THEN normalizePath(path).normalized ELSE path

\* some candidate path, in its authoritative form, matches some pattern
AuthoritativeMatch(cmdInfo, rule) ==
    \E p \in Range(PathsToCheck(cmdInfo)), q \in Range(AsArray(rule.pathPatterns)) :
        RegExpTest(RegExp(q), Authoritative(p))

\* C7: an allow rule with pathPatterns, whose cmd filter passes, matches iff
\* some candidate path matches some pattern in its authoritative form (the
\* normalized form when the original holds "..", else the original); a
\* command no allow rule matches that way is not cleared.
C7_AllowJudgesAuthoritativePath ==
    \A i \in 1..Len(checked) :
        /\ \A k \in 1..Len(AllowRules) :
               (/\ Has(AllowRules[k], "pathPatterns")
                /\ blockCmdFilter(checked[i].cmdInfo, AllowRules[k]))
                   => (matchesAllowRule(checked[i].cmdInfo, AllowRules[k],
                                        parserRegexCache).value
                       <=> AuthoritativeMatch(checked[i].cmdInfo, AllowRules[k]))
        /\ (\A k \in 1..Len(AllowRules) :
               /\ Has(AllowRules[k], "pathPatterns")
               /\ ~AuthoritativeMatch(checked[i].cmdInfo, AllowRules[k]))
               => (IsThrow(checked[i].completion)
                   \/ "reason" \notin DOMAIN checked[i].completion.value)

C7_Witness ==
    \E i \in 1..Len(checked) :
        /\ checked[i].cmdInfo.paths = <<"/tmp/../etc">>
        /\ AllowRules = <<RmSafe>>
        /\ checked[i].completion = Normal([blocked |-> TRUE, rule |-> RmRf])
        /\ pc = "returned"
        /\ result = Blocked(RmRf)

\* the rule {cmd rm, flags [r, f]} with flagMode all and no other filter
IsRmRfRule(rule) ==
    /\ DOMAIN rule \in {{"name", "cmd", "flags", "reason"},
                        {"name", "cmd", "flags", "flagMode", "reason"}}
    /\ AsArray(rule.cmd) = <<"rm">>
    /\ IsArray(rule.flags) /\ Range(rule.flags.arr) = {"r", "f"}
    /\ FlagMode(rule) = "all"

\* block rule k is the rm rule, and no other rule can match an rm command
OnlyRmRule(k) ==
    /\ IsRmRfRule(BlockRules[k])
    /\ \A j \in 1..Len(BlockRules) :
           j # k => (Has(BlockRules[j], "pipeTo") \/ ~blockCmdFilter([cmd |-> "rm"], BlockRules[j]))

\* C8: with the block rule {cmd rm, flags [r, f]} the only one for rm and no
\* allow rule matching, an rm invocation is blocked iff its parsed flags
\* hold both r and f, and the reported rule is that rule.
C8_RmBlockedIffRecursiveForce ==
    \A k \in 1..Len(BlockRules) :
        (/\ pc = "returned"
         /\ Len(commands) = 1
         /\ Len(checked) = 1
         /\ commands[1].cmd = "rm"
         /\ OnlyRmRule(k)
         /\ ~AnyAllowMatches(commands[1]))
            => /\ ~IsThrow(result)
               /\ result.value.blocked <=> {"r", "f"} \subseteq Range(commands[1].flags)
               /\ result.value.blocked => result = Blocked(BlockRules[k])

C8_Witness ==
    /\ pc = "returned"
    /\ command = "rm -r -f /"
    /\ commands[1].flags = <<"r", "f">>
    /\ AllowRules = <<RmSafe>>
    /\ result = Blocked(RmRf)

\* some candidate path matches some pattern in its original or normalized form
EitherFormMatch(cmdInfo, rule) ==
    \E p \in Range(PathsToCheck(cmdInfo)), q \in Range(AsArray(rule.pathPatterns)) :
        \/ RegExpTest(RegExp(q), p)
        \/ RegExpTest(RegExp(q), normalizePath(p).normalized)

\* C9: for a block rule with pathPatterns whose command, subcommand and flag
\* filters pass (and that has no argPatterns), matchesBlockRule returns true
\* iff some candidate path matches some pattern in its original or its
\* normalized form, and false when there is no candidate.
C9_BlockPathPatterns ==
    \A i \in 1..Len(checked), k \in 1..Len(BlockRules) :
        (/\ Has(BlockRules[k], "pathPatterns")
         /\ ~Has(BlockRules[k], "argPatterns")
         /\ blockCmdFilter(checked[i].cmdInfo, BlockRules[k])
         /\ blockSubcommandFilter(checked[i].cmdInfo, BlockRules[k])
         /\ blockFlagFilter(checked[i].cmdInfo, BlockRules[k]))
            => matchesBlockRule(checked[i].cmdInfo, BlockRules[k], rulesRegexCache)
               = Normal(EitherFormMatch(checked[i].cmdInfo, BlockRules[k]))

\* no direct child of the Script root is a Pipeline
NoTopLevelPipeline ==
    \A k \in 1..Len(ast.commands) : ast.commands[k].type # "Pipeline"

\* the names of the pipeline rules
PipeRuleNames == {BlockRules[k].name : k \in {j \in 1..Len(BlockRules) : Has(BlockRules[j], "pipeTo")}}

\* C10: checkPipeline matches only Pipeline nodes that are direct children of
\* the Script root: without one it yields no match, a root that is not a
\* Script yields no match, and such an input is never blocked by a pipeTo rule.
C10_OnlyTopLevelPipelines ==
    ~IsNull(ast) =>
        /\ NoTopLevelPipeline => IsNull(checkPipeline(ast, rules))
        /\ \A k \in 1..Len(ast.commands) : IsNull(checkPipeline(ast.commands[k], rules))
        /\ (pc = "returned" /\ NoTopLevelPipeline /\ ~IsThrow(result) /\ result.value.blocked)
               => result.value.rule.name \notin PipeRuleNames

C10_Witness ==
    /\ pc = "returned"
    /\ command = "cd /tmp && curl x | bash"
    /\ rules.block = <<CurlBash>>
    /\ ast.commands[1].type = "LogicalExpression"
    /\ ast.commands[1].right.type = "Pipeline"
    /\ SourceBeforeTarget(CurlBash, ast.commands[1].right.commands)
    /\ IsNull(pipeRule)
    /\ result = NotBlocked

\* the positions in rules.block of the pipeTo rules that some top-level
\* pipeline of ast satisfies
SatisfiedPipeRules ==
    {k \in 1..Len(BlockRules) :
        /\ Has(BlockRules[k], "pipeTo")
        /\ \E n \in 1..Len(ast.commands) :
               /\ ast.commands[n].type = "Pipeline"
               /\ SourceBeforeTarget(BlockRules[k], ast.commands[n].commands)}

\* the least position of a non-empty set of positions
First(positions) == CHOOSE k \in positions : \A j \in positions : k <= j

\* C11: when the top-level pipelines of the script satisfy one or more pipeTo
\* rules, checkPipeline returns the one declared first in rules.block, also
\* when different pipelines satisfy different rules.
C11_FirstDeclaredPipeRule ==
    (~IsNull(ast) /\ SatisfiedPipeRules # {}) =>
        checkPipeline(ast, rules) = BlockRules[First(SatisfiedPipeRules)]

\* the block rule matches the command, with every pattern compiled
BlockRuleApplies(cmdInfo, rule) ==
    /\ blockCmdFilter(cmdInfo, rule)
    /\ blockSubcommandFilter(cmdInfo, rule)
    /\ blockFlagFilter(cmdInfo, rule)
    /\ Has(rule, "pathPatterns") => EitherFormMatch(cmdInfo, rule)
    /\ Has(rule, "argPatterns") =>
           \E q \in Range(AsArray(rule.argPatterns)) :
               RegExpTest(RegExp(q), Join(cmdInfo.raw, " "))

\* the positions of the per-command block rules that match the command
ApplyingRules(cmdInfo) ==
    {k \in 1..Len(BlockRules) :
        ~Has(BlockRules[k], "pipeTo") /\ BlockRuleApplies(cmdInfo, BlockRules[k])}

\* the positions of the commands no allow rule clears and a block rule matches
CommandsToBlock(cmds) ==
    {i \in 1..Len(cmds) : ~AnyAllowMatches(cmds[i]) /\ ApplyingRules(cmds[i]) # {}}

\* the verdict and the number of checkCommand calls the fixed order gives
\* for the extracted commands
OrderedVerdict(cmds) ==
    IF CommandsToBlock(cmds) = {}
    THEN [result |-> NotBlocked, checks |-> Len(cmds)]
    ELSE [result |-> Blocked(BlockRules[First(ApplyingRules(cmds[First(CommandsToBlock(cmds))]))]),
          checks |-> First(CommandsToBlock(cmds))]

\* C12: for a text that is parsed, a pipeline-rule match is returned before any
\* command is checked; otherwise the result is the first declared block rule
\* that matches the first extracted command no allow rule clears, no command
\* after it is checked, and without such a command the result is not-blocked.
C12_FixedDecisionOrder ==
    (pc = "returned" /\ ArrIncludes(calls, "parse") /\ ~IsThrow(parse(command))) =>
        IF ~IsNull(checkPipeline(parse(command).value, rules))
        THEN /\ result = Blocked(checkPipeline(parse(command).value, rules))
             /\ checked = <<>>
        ELSE /\ result = OrderedVerdict(extractCommands(parse(command).value)).result
             /\ Len(checked) <= OrderedVerdict(extractCommands(parse(command).value)).checks
             /\ result.value.blocked =>
                    Len(checked) = OrderedVerdict(extractCommands(parse(command).value)).checks
             /\ \A i \in 1..Len(checked) :
                    checked[i].cmdInfo = extractCommands(parse(command).value)[i]

\* the rule set without its pipeTo rules
WithoutPipeRules ==
    [block |-> SelectSeq(BlockRules, LAMBDA r : ~Has(r, "pipeTo")), allow |-> AllowRules]

EvaluateFresh(text, ruleSet) ==
    IF isFastPathSafe(text) THEN NotBlocked ELSE fullPath(text, ruleSet, <<>>, <<>>)

\* C15: the result of checkBashCommand is the one a call on fresh module
\* state gives for the same text and rule set, whatever calls ran before; the
\* calls write nothing but the regex caches, which hold for each pattern the
\* matcher compiled from it.
C15_HistoryIndependent ==
    /\ pc = "returned" => result = EvaluateFresh(command, rules)
    /\ rules \in RuleSets
    /\ \A p \in DOMAIN parserRegexCache : parserRegexCache[p] = RegExp(p)
    /\ \A p \in DOMAIN rulesRegexCache : rulesRegexCache[p] = RegExp(p)

C15_Witness ==
    /\ pc = "returned"
    /\ command = "rm -rf /tmp/foo && rm -rf /"
    /\ "^/tmp/" \in DOMAIN parserRegexCache
    /\ Len(checked) = 2
    /\ checked[1].completion = Normal([blocked |-> FALSE, reason |-> "Allowed: rm-safe"])
    /\ result = Blocked(RmRf)

\* the direct call in progress is a call of fn
DirectCallOf(fn) == ~IsNull(direct) /\ direct.fn = fn

\* the value the direct call returned
Returned == direct.completion.value

\* what the claim says of the flag filter: every listed flag under all, one
\* of them under any, a single string counting as a list of one
ListedFlagsPass(cmdInfo, rule) ==
    IF "flagMode" \in DOMAIN rule /\ rule.flagMode = "any"
    THEN \E f \in Range(AsArray(rule.flags)) : f \in Range(cmdInfo.flags)
    ELSE \A f \in Range(AsArray(rule.flags)) : f \in Range(cmdInfo.flags)

\* C13, as stated: whenever rule.flags is present the filter passes iff the
\* listed flags are in cmd.flags (one of them under any, all of them
\* otherwise), and it passes when flags is absent.
C13_FlagFilterWhenPresent ==
    DirectCallOf("matchesBlockRule") =>
        direct.completion =
            Normal(/\ blockCmdFilter(direct.args[1], direct.args[2])
                   /\ "flags" \in DOMAIN direct.args[2]
                          => ListedFlagsPass(direct.args[1], direct.args[2]))

\* C13, amended: the filter applies when rule.flags is present and is not
\* the empty string; then it passes iff the listed flags are in cmd.flags
\* (one of them under any, all of them under all or without flagMode), a
\* single string counting as a list of one; a rule whose flags is absent or
\* the empty string has no flag filter.
C13_FlagFilterWhenTruthy ==
    DirectCallOf("matchesBlockRule") =>
        direct.completion =
            Normal(/\ blockCmdFilter(direct.args[1], direct.args[2])
                   /\ ("flags" \in DOMAIN direct.args[2] /\ direct.args[2].flags # Str(""))
                          => ListedFlagsPass(direct.args[1], direct.args[2]))

C13_Witness ==
    /\ DirectCallOf("matchesBlockRule")
    /\ direct.args[1].cmd = "rm"
    /\ direct.args[1].flags = <<"f">>
    /\ direct.args[2] = [name |-> "rm-flags", cmd |-> Str("rm"),
                          flags |-> Arr(<<"f", "r">>), flagMode |-> "any",
                          reason |-> "flags"]
    /\ direct.completion = Normal(TRUE)

\* the text with a leading ~ replaced by the home directory
HomeExpanded(path) ==
    IF SubSeq(path, 1, 1) = "~" THEN "/home/u" \o SubSeq(path, 2, Len(path)) ELSE path

\* the stack after the first n segments: .. pops (nothing, on an empty
\* stack), . and the empty segment change nothing, any other is pushed
RECURSIVE StackAfter(_, _)
StackStep(stack, seg) ==
    IF seg = ".." THEN SubSeq(stack, 1, Len(stack) - 1)
    ELSE IF seg \in {".", ""} THEN stack
    ELSE stack \o <<seg>>

StackAfter(segs, n) == IF n = 0 THEN <<>> ELSE StackStep(StackAfter(segs, n - 1), segs[n])

\* the text is empty, or its segments hold no ., .. or empty segment
CleanSegments(text) ==
    text = "" \/ \A s \in Range(Split(text, "/")) : s \notin {".", "..", ""}

\* C16: for a non-empty path, normalized is "/" followed by the stack of
\* segments joined by "/", the stack being built over the segments of the
\* text (home directory substituted) as the claim says; so it starts with
\* "/", holds no ., .. or empty segment, and /a/b/c/../../d gives /a/d,
\* /tmp/../etc/passwd gives /etc/passwd, /../.. gives /.
C16_StackResolution ==
    (DirectCallOf("normalizePath") /\ direct.args[1] # "") =>
        /\ Returned.normalized =
               "/" \o Join(StackAfter(Split(HomeExpanded(direct.args[1]), "/"),
                                      Len(Split(HomeExpanded(direct.args[1]), "/"))), "/")
        /\ SubSeq(Returned.normalized, 1, 1) = "/"
        /\ CleanSegments(SubSeq(Returned.normalized, 2, Len(Returned.normalized)))
        /\ direct.args[1] = "/a/b/c/../../d" => Returned.normalized = "/a/d"
        /\ direct.args[1] = "/tmp/../etc/passwd" => Returned.normalized = "/etc/passwd"
        /\ direct.args[1] = "/../.." => Returned.normalized = "/"

C16_Witness ==
    /\ DirectCallOf("normalizePath")
    /\ direct.args[1] = "a/b/../../../c"
    /\ Returned.normalized = "/c"

\* the text holds two dots in a row
HoldsDotDot(text) == \E i \in 1..(Len(text) - 1) : SubSeq(text, i, i + 1) = ".."

\* C17: normalizePath returns the original verbatim, hasTraversal is true
\* iff the original holds "..", isAbsolute is true iff the original starts
\* with / or ~, and the empty path gives normalized "" with both flags false.
C17_FlagsFromOriginal ==
    DirectCallOf("normalizePath") =>
        /\ Returned.original = direct.args[1]
        /\ Returned.hasTraversal <=> HoldsDotDot(direct.args[1])
        /\ Returned.isAbsolute <=>
               (direct.args[1] # "" /\ SubSeq(direct.args[1], 1, 1) \in {"/", "~"})
        /\ direct.args[1] = "" =>
               Returned = [original |-> "", normalized |-> "",
                           hasTraversal |-> FALSE, isAbsolute |-> FALSE]

C17_Witness ==
    /\ DirectCallOf("normalizePath")
    /\ direct.args[1] = "/tmp/../etc/passwd"
    /\ Returned.normalized = "/etc/passwd"
    /\ ~HoldsDotDot(Returned.normalized)
    /\ Returned.hasTraversal
    /\ Returned.isAbsolute

\* the non-empty texts of the suffix of a node, in order
SuffixTexts(node) ==
    SelectSeq([k \in 1..Len(OrEmpty(node, "suffix")) |-> PartText(node.suffix[k])],
              LAMBDA t : t # "")

\* the token starts with --
IsLongFlag(t) == Len(t) >= 2 /\ SubSeq(t, 1, 2) = "--"

\* a dash followed by digits and dots only
IsBareNumber(t) ==
    /\ Len(t) >= 2
    /\ SubSeq(t, 1, 1) = "-"
    /\ \A i \in 2..Len(t) :
           SubSeq(t, i, i) \in {"0", "1", "2", "3", "4", "5", "6", "7", "8", "9", "."}

\* the token is a cluster of short flags
IsFlagCluster(t) ==
    ~IsLongFlag(t) /\ Len(t) > 1 /\ SubSeq(t, 1, 1) = "-" /\ ~IsBareNumber(t)

IsPositional(t) == ~IsLongFlag(t) /\ ~IsFlagCluster(t)

\* the text before the first = of a text
BeforeEquals(t) ==
    IF \E i \in 1..Len(t) : SubSeq(t, i, i) = "="
    THEN SubSeq(t, 1, (CHOOSE i \in 1..Len(t) :
                           /\ SubSeq(t, i, i) = "="
                           /\ \A j \in 1..(i - 1) : SubSeq(t, j, j) # "=") - 1)
    ELSE t

\* the flags one token gives
FlagsOfToken(t) ==
    IF IsLongFlag(t) THEN <<BeforeEquals(SubSeq(t, 3, Len(t)))>>
    ELSE IF IsFlagCluster(t) THEN [i \in 1..(Len(t) - 1) |-> SubSeq(t, i + 1, i + 1)]
    ELSE <<>>

\* the flags the first n tokens give, in order
RECURSIVE FlagsOfTokens(_, _)
FlagsOfTokens(ts, n) ==
    IF n = 0 THEN <<>> ELSE FlagsOfTokens(ts, n - 1) \o FlagsOfToken(ts[n])

\* the token begins with /, ~, $ or .
BeginsLikePath(t) == t # "" /\ SubSeq(t, 1, 1) \in {"/", "~", "$", "."}

\* C18: parseCommand puts each non-empty suffix token in one class: long
\* flag (-- and the name up to the first =), short-flag cluster (one flag
\* per character after the dash), or positional argument (also a path when
\* it begins with /, ~, $ or .); raw holds every token in order, and paths
\* is a subsequence of args.
C18_TokenClasses ==
    (DirectCallOf("parseCommand") /\ HasNameText(direct.args[1])) =>
        /\ Returned.cmd = direct.args[1].name.text
        /\ Returned.raw = SuffixTexts(direct.args[1])
        /\ Returned.flags = FlagsOfTokens(SuffixTexts(direct.args[1]),
                                          Len(SuffixTexts(direct.args[1])))
        /\ Returned.args = SelectSeq(SuffixTexts(direct.args[1]), IsPositional)
        /\ Returned.paths = SelectSeq(Returned.args, BeginsLikePath)

C18_Witness ==
    /\ DirectCallOf("parseCommand")
    /\ direct.args[1] = CommandOf("git", <<"--no-pager", "-C", "/r", "log", "-10", "x">>)
    /\ Returned.flags = <<"no-pager", "C">>
    /\ Returned.args = <<"/r", "log", "-10", "x">>
    /\ Returned.paths = <<"/r">>
    /\ Returned.raw = <<"--no-pager", "-C", "/r", "log", "-10", "x">>

\* C19: for a command named git with a positional argument, subcommand is
\* the first positional argument and subArgs the remaining ones in order;
\* for git without one, and for any other command, both stay unset.
C19_GitSubcommand ==
    (DirectCallOf("parseCommand") /\ HasNameText(direct.args[1])) =>
        IF /\ direct.args[1].name.text = "git"
           /\ SelectSeq(SuffixTexts(direct.args[1]), IsPositional) # <<>>
        THEN /\ DOMAIN Returned = {"cmd", "args", "flags", "paths", "raw",
                                   "subcommand", "subArgs"}
             /\ Returned.subcommand =
                    Head(SelectSeq(SuffixTexts(direct.args[1]), IsPositional))
             /\ Returned.subArgs =
                    Tail(SelectSeq(SuffixTexts(direct.args[1]), IsPositional))
        ELSE DOMAIN Returned = {"cmd", "args", "flags", "paths", "raw"}

C19_Witness ==
    /\ DirectCallOf("parseCommand")
    /\ direct.args[1] = CommandOf("git", <<"push", "--force", "origin", "main">>)
    /\ Returned.subcommand = "push"
    /\ "force" \in Range(Returned.flags)
    /\ Returned.subArgs = <<"origin", "main">>

\* the named Command leaves under a node, left to right
RECURSIVE NamedLeaves(_), NamedLeavesOfEach(_, _)
NamedLeaves(node) ==
    IF IsNull(node) THEN <<>>
    ELSE IF node.type = "Command"
    THEN (IF HasNameText(node) THEN <<node>> ELSE <<>>)
    ELSE IF node.type \in {"Script", "Pipeline"}
    THEN NamedLeavesOfEach(OrEmpty(node, "commands"), Len(OrEmpty(node, "commands")))
    ELSE IF node.type \in {"Subshell", "CompoundList"}
    THEN NamedLeavesOfEach(OrEmpty(node, "list"), Len(OrEmpty(node, "list")))
    ELSE IF node.type = "LogicalExpression"
    THEN (IF "left" \in DOMAIN node THEN NamedLeaves(node.left) ELSE <<>>)
         \o (IF "right" \in DOMAIN node THEN NamedLeaves(node.right) ELSE <<>>)
    ELSE <<>>

NamedLeavesOfEach(nodes, n) ==
    IF n = 0 THEN <<>> ELSE NamedLeavesOfEach(nodes, n - 1) \o NamedLeaves(nodes[n])

\* C20: extractCommands returns the structured commands of the named
\* Command leaves reachable through Script, Pipeline, LogicalExpression,
\* Subshell and CompoundList nodes, one per leaf, in left-to-right
\* depth-first order; a null node gives the empty list.
C20_FlatLeftToRight ==
    DirectCallOf("extractCommands") =>
        /\ Len(Returned) = Len(NamedLeaves(direct.args[1]))
        /\ \A i \in 1..Len(Returned) :
               Returned[i] = parseCommand(NamedLeaves(direct.args[1])[i])
        /\ IsNull(direct.args[1]) => Returned = <<>>

C20_Witness ==
    /\ DirectCallOf("extractCommands")
    /\ direct.args[1] =
           Container("Script",
               <<CommandOf("c", <<>>),
                 [type |-> "LogicalExpression", op |-> "and",
                  left |-> CommandOf("a", <<"-x", "/p">>),
                  right |-> CommandOf("c", <<>>)]>>)
    /\ Len(Returned) = 3
    /\ Returned[1].cmd = "c" /\ Returned[2].cmd = "a" /\ Returned[3].cmd = "c"
    /\ Returned[2].flags = <<"x">>

\* the node kinds extractCommands knows
RecognisedTypes ==
    {"Script", "Pipeline", "LogicalExpression", "Command", "Subshell", "CompoundList"}

\* a node that is said to contribute nothing: null, of an unrecognised
\* kind, or a Command without name text
Contributes(node) ==
    /\ ~IsNull(node)
    /\ node.type \in RecognisedTypes
    /\ node.type = "Command" => HasNameText(node)

\* the children a container holds in the field extractCommands reads for
\* its kind; a missing field holds none
ChildrenOf(node) ==
    IF node.type \in {"Script", "Pipeline"} THEN OrEmpty(node, "commands")
    ELSE IF node.type \in {"Subshell", "CompoundList"} THEN OrEmpty(node, "list")
    ELSE IF node.type = "LogicalExpression"
    THEN (IF "left" \in DOMAIN node THEN <<node.left>> ELSE <<>>)
         \o (IF "right" \in DOMAIN node THEN <<node.right>> ELSE <<>>)
    ELSE <<>>

\* C21: extractCommands never throws; a node of an unrecognised kind yields
\* no commands and nothing below it is visited, a Command without name text
\* is skipped, a container whose field is missing counts as empty; so the
\* rm -rf / held under an unrecognised node is never returned, and the
\* tree is not blocked by the rm-rf rule.
C21_UnrecognisedIgnored ==
    DirectCallOf("extractCommands") =>
        /\ direct.completion.type = "normal"
        /\ ~Contributes(direct.args[1]) => Returned = <<>>
        /\ (Contributes(direct.args[1]) /\ direct.args[1].type # "Command"
            /\ \A i \in 1..Len(ChildrenOf(direct.args[1])) :
                   ~Contributes(ChildrenOf(direct.args[1])[i]))
               => Returned = <<>>
        /\ \A i \in 1..Len(Returned) : Returned[i].cmd # "rm"
        /\ ~IsNull(direct.args[1]) =>
               fullPathAfterParse(Normal(Container("Script", <<direct.args[1]>>)),
                                  [block |-> <<RmRf>>, allow |-> <<>>],
                                  rulesRegexCache, parserRegexCache) = NotBlocked

C21_Witness ==
    /\ DirectCallOf("extractCommands")
    /\ direct.args[1] =
           Container("Script",
               <<CommandOf("c", <<>>),
                 [type |-> "If", commands |-> <<CommandOf("rm", <<"-rf", "/">>)>>,
                  list |-> <<CommandOf("rm", <<"-rf", "/">>)>>,
                  left |-> CommandOf("rm", <<"-rf", "/">>),
                  right |-> CommandOf("rm", <<"-rf", "/">>)]>>)
    /\ Len(Returned) = 1
    /\ Returned[1].cmd = "c"

\* the command the hook input carries, when it carries one
InputHasCommand == ~IsThrow(stdin) /\ ~IsNull(stdin.value) /\ hasCommand(stdin.value)

InputCommand == stdin.value.tool_input.command

\* checkBashCommand returned blocked together with a rule for the input
InputIsBlocked ==
    /\ InputHasCommand
    /\ ~IsThrow(checkBashCommand(InputCommand, rules))
    /\ BlockedWithRule(checkBashCommand(InputCommand, rules).value)

\* C22: runPre ends the process with BLOCK (2) iff checkBashCommand returned
\* blocked with a rule, after writing the rule's name, its reason and the
\* command to stderr, and with ALLOW (0) on every other path: no command,
\* a result that does not block, an exception while reading the input or
\* while evaluating the command.  No other exit code occurs.
C22_ExitCodeForEveryOutcome ==
    hookPc = "exited" =>
        /\ exitCode \in {EXIT.ALLOW, EXIT.BLOCK}
        /\ exitCode = EXIT.BLOCK <=> InputIsBlocked
        /\ exitCode = EXIT.BLOCK =>
               /\ Len(stderr) = 4
               /\ stderr[2] = "  Rule: " \o checkBashCommand(InputCommand, rules).value.rule.name
               /\ stderr[3] = "  Reason: " \o checkBashCommand(InputCommand, rules).value.rule.reason
               /\ stderr[4] = "  Command: " \o InputCommand

\* the evaluation threw (the RangeError of getRegex) and the hook allowed
C22_Witness ==
    /\ hookPc = "exited"
    /\ InputHasCommand
    /\ IsThrow(checkBashCommand(InputCommand, rules))
    /\ exitCode = EXIT.ALLOW
    /\ Len(stderr) = 1

\* offloadOutput has returned or thrown
OffloadDone == ~IsNull(post) /\ post.pc = "returned"

\* the path the claim gives the scratch file of the call
ClaimedPath ==
    join(scratchPath,
         "out_" \o hashOutput(post.output) \o "_exit" \o ToString(post.exitCode) \o ".txt")

\* C23: for text under the token threshold offloadOutput returns modified
\* false and the text itself, and the scratch directory is as before the
\* call; for text over the threshold, when it returns, modified is true and
\* the file out_<hash>_exit<code>.txt of the scratch directory holds the
\* full text, a name that the text and the exit code determine.
C23_PassThroughOrWritten ==
    (OffloadDone /\ ~IsThrow(post.completion)) =>
        /\ post.tokens < post.config.maxTokens =>
               /\ post.completion.value = [modified |-> FALSE, result |-> post.output]
               /\ scratch = post.before
        /\ post.tokens > post.config.maxTokens =>
               /\ post.completion.value.modified
               /\ ClaimedPath \in DOMAIN scratch
               /\ scratch[ClaimedPath].content = post.output
               /\ post.filepath = ClaimedPath
               /\ Includes(post.completion.value.result, ClaimedPath)

\* the file of an earlier offload of the same text was there, and holds the
\* text again
C23_Witness ==
    /\ OffloadDone
    /\ ~IsThrow(post.completion)
    /\ post.output = "b c d e\na"
    /\ post.exitCode = 0
    /\ post.completion.value.modified
    /\ ClaimedPath \in DOMAIN post.before
    /\ post.before[ClaimedPath].content = "earlier"
    /\ scratch[ClaimedPath].content = post.output

\* the output was offloaded and the message with the preview returned
Offloaded == OffloadDone /\ ~IsThrow(post.completion) /\ post.completion.value.modified

RECURSIVE SumTokens(_)
SumTokens(ls) == IF ls = <<>> THEN 0 ELSE countTokens(Head(ls)) + SumTokens(Tail(ls))

\* ls is the end of the list all, in the same order
IsTailOf(ls, all) ==
    /\ Len(ls) <= Len(all)
    /\ ls = SubSeq(all, Len(all) - Len(ls) + 1, Len(all))

\* C24: the preview of an offloaded output is a contiguous tail of the
\* output's lines that ends with the last line, and the tokens of its lines
\* add up to config.previewTokens at most, also when the last line alone
\* has more tokens than that.
C24_PreviewBounded ==
    Offloaded =>
        /\ IsTailOf(post.previewLines, post.lines)
        /\ post.previewLines # <<>>
        /\ SumTokens(post.previewLines) <= post.config.previewTokens

\* the cache of the module whose getRegex was called, as it is now
CacheOfCall == IF direct.args[1] = "rules.ts" THEN rulesRegexCache ELSE parserRegexCache

\* C25: getRegex(pattern) returns for every pattern; it returns the matcher
\* compiled from the pattern, which the cache then holds under the pattern
\* text; on a hit the cache is unchanged; no entry is removed or replaced.
C25_ReadThroughCache ==
    DirectCallOf("getRegex") =>
        /\ ~IsThrow(direct.completion)
        /\ Returned = RegExp(direct.args[2])
        /\ direct.args[2] \in DOMAIN CacheOfCall
        /\ CacheOfCall[direct.args[2]] = Returned
        /\ direct.args[2] \in DOMAIN direct.args[3] => CacheOfCall = direct.args[3]
        /\ \A q \in DOMAIN direct.args[3] :
               q \in DOMAIN CacheOfCall /\ CacheOfCall[q] = direct.args[3][q]

\* cleanupScratch has run in this call, and no unlinkSync could fail
CleanedUp == ~IsNull(post) /\ ~IsNull(post.cleaned) /\ locked = {}

IsOffloadFile(p) == StartsWith(Basename(scratchPath, p), "out_")

\* the out_ files of a directory
OffloadFiles(dir) == {p \in DOMAIN dir : IsOffloadFile(p)}

RECURSIVE TotalSize(_, _)
TotalSize(dir, paths) ==
    IF paths = {} THEN 0
    ELSE dir[CHOOSE p \in paths : TRUE].size
         + TotalSize(dir, paths \ {CHOOSE p \in paths : TRUE})

MaxAgeMs == testConfig.maxAgeMinutes * 60 * 1000

MaxBytes == testConfig.maxScratchSizeMB * 1024 * 1024

\* the out_ files cleanupScratch deleted
Deleted == OffloadFiles(post.before) \ DOMAIN post.cleaned

\* the ones it deleted although they were not older than the age limit
DeletedForSize == {p \in Deleted : Now - post.before[p].mtime <= MaxAgeMs}

ToldTooLarge(conn) == \E k \in DOMAIN conn.written : conn.written[k] = TooLarge

\* C27: the daemon bounds the input of a connection: the core is never called
\* for a buffer of more than 10*1024*1024 characters; a connection whose buffer
\* is over the limit has been told 'Request too large' and is ended; and the
\* buffer of such a connection does not grow with further chunks.
C27_InputBounded ==
    [][\A i \in DOMAIN conns :
        /\ \A k \in DOMAIN conns'[i].invoked : conns'[i].invoked[k].length <= BufferLimit
        /\ BufLen(conns'[i].buffer) > BufferLimit
              => ToldTooLarge(conns'[i]) /\ conns'[i].ended
        /\ BufLen(conns[i].buffer) > BufferLimit
              => BufLen(conns'[i].buffer) <= BufLen(conns[i].buffer)]_vars

\* the arguments of the direct call of matchesAllowRule
CalledCmdInfo == direct.args[1]

CalledRule == direct.args[2]

\* C28 as stated: matchesAllowRule returns true iff rule.cmd is absent or
\* contains cmd.cmd, and rule.pathPatterns is absent or the candidate list
\* is non-empty and a candidate matches a pattern in its authoritative form.
C28_AllowCmdAndPathsWhenPresent ==
    DirectCallOf("matchesAllowRule") =>
        (Returned <=>
            /\ "cmd" \in DOMAIN CalledRule =>
                   ArrIncludes(AsArray(CalledRule.cmd), CalledCmdInfo.cmd)
            /\ "pathPatterns" \in DOMAIN CalledRule =>
                   /\ PathsToCheck(CalledCmdInfo) # <<>>
                   /\ AuthoritativeMatch(CalledCmdInfo, CalledRule))

\* C28, amended: matchesAllowRule returns true iff rule.cmd is absent, the
\* empty string, or contains cmd.cmd, and rule.pathPatterns is absent, the
\* empty string, or the candidate list (paths if non-empty, else args) is
\* non-empty and a candidate matches a pattern in its authoritative form;
\* flags, subcommand and argPatterns of the rule play no part.
C28_AllowCmdAndPathsWhenTruthy ==
    DirectCallOf("matchesAllowRule") =>
        (Returned <=>
            /\ Has(CalledRule, "cmd") =>
                   ArrIncludes(AsArray(CalledRule.cmd), CalledCmdInfo.cmd)
            /\ Has(CalledRule, "pathPatterns") =>
                   /\ PathsToCheck(CalledCmdInfo) # <<>>
                   /\ AuthoritativeMatch(CalledCmdInfo, CalledRule))

\* rm -rf /tmp/foo / is cleared by a rule for ^/tmp/ that also carries the
\* fields of block rules, none of which the command satisfies
C28_Witness ==
    /\ DirectCallOf("matchesAllowRule")
    /\ CalledCmdInfo.cmd = "rm"
    /\ CalledCmdInfo.paths = <<"/tmp/foo", "/">>
    /\ CalledRule.name = "rm-safe"
    /\ "argPatterns" \in DOMAIN CalledRule
    /\ Returned = TRUE

\* the client of the connection has sent all it had to send
Quiet(conn) == conn.script = <<>>

\* what the client has sent is one complete JSON request within the limit
CompleteRequest(conn) ==
    TextIndex(conn.sent.text, 1) > 0 /\ BufLen(conn.sent) <= BufferLimit

SentRequest(conn) == JSONTexts[TextIndex(conn.sent.text, 1)].value

\* the response is of the kind the request asks for, or an error object
RightKind(request, response) ==
    \/ "error" \in DOMAIN response
    \/ ~IsNull(request) /\ request.type = "pre" /\ "blocked" \in DOMAIN response
    \/ ~IsNull(request) /\ request.type = "post" /\ "stdout" \in DOMAIN response

\* C29: a connection that has delivered a complete JSON request, in one chunk
\* or several, has received exactly one response, of the kind of the request
\* or an error object, and the socket is ended, also when handling the
\* request has thrown.
C29_EveryRequestAnswered ==
    \A i \in DOMAIN conns :
        Quiet(conns[i]) /\ CompleteRequest(conns[i])
            => /\ Len(conns[i].written) = 1
               /\ conns[i].ended
               /\ RightKind(SentRequest(conns[i]), conns[i].written[1])

\* C30: chat always terminates: whatever the providers answer, a call of chat
\* that awaits a response leads to a call that has returned the completion text
\* or thrown.
C30_ChatTerminates == ChatPending ~> ChatDone
====
